---- MODULE Spec2Model ----
(***************************************************************************)
(* Model of MortgageLoanCalculatorTool.calculate_mortgage_loan            *)
(* (src/mortgage_loan_calculator_tool/main.py).                           *)
(*                                                                         *)
(* Python floats are IEEE-754 binary64 numbers.  They are modelled bit     *)
(* for bit: a finite float is sign * mant * 2^exp with mant either zero   *)
(* or a Precision-bit natural number, and every arithmetic operation      *)
(* rounds its exact result to the nearest such number, ties to even.      *)
(* TLC integers are 32 bits wide, so a mantissa is kept as a little-endian *)
(* sequence of limbs in base 2^15.  Infinities, NaN and subnormals are     *)
(* outside the model; the requests enumerated below never produce them    *)
(* except through math.pow, whose overflow is modelled as the             *)
(* OverflowError it raises.                                                *)
(***************************************************************************)
EXTENDS Integers, Sequences, FiniteSets, TLC

(***************************************************************************)
(* Natural numbers of arbitrary size                                       *)
(***************************************************************************)
LimbBits == 3 * 5
Base == 2^LimbBits

Max(a, b) == IF a >= b THEN a ELSE b
Min(a, b) == IF a <= b THEN a ELSE b

Digit(a, i) == IF i >= 1 /\ i <= Len(a) THEN a[i] ELSE 0

RECURSIVE BTrim(_)
BTrim(a) ==
    IF a = <<>> THEN <<>>
    ELSE IF a[Len(a)] = 0 THEN BTrim(SubSeq(a, 1, Len(a) - 1))
    ELSE a

RECURSIVE BFromNat(_)
BFromNat(n) == IF n = 0 THEN <<>> ELSE <<n % Base>> \o BFromNat(n \div Base)

\* only applied to values below 2^31
RECURSIVE BToNat(_)
BToNat(a) == IF a = <<>> THEN 0 ELSE a[1] + Base * BToNat(Tail(a))

RECURSIVE BAddC(_, _, _, _)
BAddC(a, b, i, c) ==
    IF i > Len(a) /\ i > Len(b)
    THEN (IF c = 0 THEN <<>> ELSE <<c>>)
    ELSE LET s == Digit(a, i) + Digit(b, i) + c
         IN  <<s % Base>> \o BAddC(a, b, i + 1, s \div Base)

BAdd(a, b) == BAddC(a, b, 1, 0)

\* a - b for a >= b
RECURSIVE BSubC(_, _, _, _)
BSubC(a, b, i, c) ==
    IF i > Len(a) THEN <<>>
    ELSE LET s == a[i] - Digit(b, i) - c
         IN  IF s < 0 THEN <<s + Base>> \o BSubC(a, b, i + 1, 1)
             ELSE <<s>> \o BSubC(a, b, i + 1, 0)

BSub(a, b) == BTrim(BSubC(a, b, 1, 0))

RECURSIVE BCmpAt(_, _, _)
BCmpAt(a, b, i) ==
    IF i = 0 THEN 0
    ELSE IF a[i] > b[i] THEN 1
    ELSE IF a[i] < b[i] THEN -1
    ELSE BCmpAt(a, b, i - 1)

\* -1, 0 or 1 as a < b, a = b or a > b
BCmp(a, b) ==
    IF Len(a) > Len(b) THEN 1
    ELSE IF Len(a) < Len(b) THEN -1
    ELSE BCmpAt(a, b, Len(a))

\* a * d + c for one limb d
RECURSIVE BMulDigitC(_, _, _, _)
BMulDigitC(a, d, i, c) ==
    IF i > Len(a)
    THEN (IF c = 0 THEN <<>> ELSE <<c>>)
    ELSE LET s == a[i] * d + c
         IN  <<s % Base>> \o BMulDigitC(a, d, i + 1, s \div Base)

BMulDigit(a, d) == IF d = 0 THEN <<>> ELSE BMulDigitC(a, d, 1, 0)

Zeros(n) == [i \in 1..n |-> 0]

BShlLimbs(a, n) == IF a = <<>> THEN <<>> ELSE Zeros(n) \o a

RECURSIVE BMulAt(_, _, _)
BMulAt(a, b, i) ==
    IF i > Len(b) THEN <<>>
    ELSE BAdd(BShlLimbs(BMulDigit(a, b[i]), i - 1), BMulAt(a, b, i + 1))

BMul(a, b) == BMulAt(a, b, 1)

\* a * 2^k
BShl(a, k) == BShlLimbs(BMulDigit(a, 2^(k % LimbBits)), k \div LimbBits)

\* floor(a / d) for one limb d, from the top limb down
RECURSIVE BDivDigitAt(_, _, _, _)
BDivDigitAt(a, d, i, r) ==
    IF i = 0 THEN <<>>
    ELSE LET cur == r * Base + a[i]
         IN  BDivDigitAt(a, d, i - 1, cur % d) \o <<cur \div d>>

\* floor(a / 2^k)
BShr(a, k) ==
    LET n == k \div LimbBits
        rest == IF n >= Len(a) THEN <<>> ELSE SubSeq(a, n + 1, Len(a))
    IN  BTrim(BDivDigitAt(rest, 2^(k % LimbBits), Len(rest), 0))

RECURSIVE NatBitLen(_)
NatBitLen(n) == IF n = 0 THEN 0 ELSE 1 + NatBitLen(n \div 2)

BBitLen(a) == IF a = <<>> THEN 0 ELSE LimbBits * (Len(a) - 1) + NatBitLen(a[Len(a)])

BIsOdd(a) == a # <<>> /\ a[1] % 2 = 1

\* one step of long division: the remainder is doubled and the next
\* quotient bit, most significant first, is appended
DivSub(bits, r2, den, ge) ==
    [bits |-> Append(bits, IF ge THEN 1 ELSE 0),
     r |-> IF ge THEN BSub(r2, den) ELSE r2]

DivBit(bits, r2, den) == DivSub(bits, r2, den, BCmp(r2, den) >= 0)

DivStep(st, den) == DivBit(st.bits, BAdd(st.r, st.r), den)

\* k steps of long division, halved so that the evaluation stays shallow;
\* TLC evaluates an argument when it is first used, and the test on st
\* makes that happen before the following steps are entered
RECURSIVE DivIter(_, _, _)
DivIter(st, den, k) ==
    IF k = 0 \/ Len(st.bits) = 0 THEN st
    ELSE IF k = 1 THEN DivStep(st, den)
    ELSE DivIter(DivIter(st, den, k \div 2), den, k - (k \div 2))

\* the natural number with the given bits, most significant first
RECURSIVE LimbOfBits(_, _, _)
LimbOfBits(bits, lo, hi) ==
    IF hi < lo THEN 0
    ELSE bits[Len(bits) - lo] + 2 * LimbOfBits(bits, lo + 1, hi)

BFromBits(bits) ==
    BTrim([j \in 1..((Len(bits) + LimbBits - 1) \div LimbBits) |->
              LimbOfBits(bits, LimbBits * (j - 1),
                         Min(LimbBits * j, Len(bits)) - 1)])

DivResult(st) == [quot |-> BFromBits(st.bits), exact |-> (st.r = <<>>)]

DivStart(num, den, k, ge) ==
    DivResult(DivIter([bits |-> <<IF ge THEN 1 ELSE 0>>,
                       r |-> IF ge THEN BSub(num, den) ELSE num], den, k))

\* floor(num * 2^k / den) for num < 2 * den, and whether it is exact
BDivShift(num, den, k) == DivStart(num, den, k, BCmp(num, den) >= 0)

(***************************************************************************)
(* binary64 arithmetic, round to nearest, ties to even.  An operator that  *)
(* needs an intermediate value more than once takes it as a parameter of   *)
(* a further operator, so that it is computed once.                        *)
(***************************************************************************)
Precision == 53
\* the largest exponent of a finite float: values are below 2^MaxExp
MaxExp == 1024

\* the rounded mantissa q1 may have one bit too many
RoundCarry(e, p, q1) ==
    IF BBitLen(q1) > p
    THEN [mant |-> BShr(q1, 1), exp |-> e + 1]
    ELSE [mant |-> q1, exp |-> e]

\* q is the truncated mantissa and c compares what was cut off with half
\* a unit in the last place
RoundUp(e, p, q, c) ==
    IF c > 0 \/ (c = 0 /\ BIsOdd(q))
    THEN RoundCarry(e, p, BAdd(q, <<1>>))
    ELSE [mant |-> q, exp |-> e]

RoundQuot(n, e, p, k, q) ==
    RoundUp(e + k, p, q, BCmp(BSub(n, BShl(q, k)), BShl(<<1>>, k - 1)))

\* k bits of n are to be cut off
RoundBits(n, e, p, k) ==
    IF k <= 0
    THEN [mant |-> BShl(n, -k), exp |-> e + k]
    ELSE RoundQuot(n, e, p, k, BShr(n, k))

\* n * 2^e rounded to p significant bits, for n # 0
RoundNearestEven(n, e, p) == RoundBits(n, e, p, BBitLen(n) - p)

FZero == [sign |-> 0, mant |-> <<>>, exp |-> 0]

IsZero(x) == x.mant = <<>>

WithSign(sign, r) == [sign |-> sign, mant |-> r.mant, exp |-> r.exp]

MkFloat(sign, n, e) ==
    IF n = <<>> THEN FZero
    ELSE WithSign(sign, RoundNearestEven(n, e, Precision))

\* float(n) for a Python int n
FromInt(n) == MkFloat(IF n < 0 THEN 1 ELSE 0, BFromNat(IF n < 0 THEN -n ELSE n), 0)

FNeg(x) == IF IsZero(x) THEN x ELSE [x EXCEPT !.sign = 1 - x.sign]

\* the sum of two signed magnitudes on a common exponent; c compares them
AddSigned(sx, nx, sy, ny, e, c) ==
    MkFloat(IF c >= 0 THEN sx ELSE sy,
            IF sx = sy THEN BAdd(nx, ny)
            ELSE IF c > 0 THEN BSub(nx, ny)
            ELSE BSub(ny, nx),
            e)

AddAligned(sx, nx, sy, ny, e) ==
    AddSigned(sx, nx, sy, ny, e, IF sx = sy THEN 1 ELSE BCmp(nx, ny))

\* x + y; an operand more than Precision + 2 binary places below the other
\* is below a quarter of its last place and leaves it unchanged
FAdd(x, y) ==
    IF IsZero(x) THEN y
    ELSE IF IsZero(y) THEN x
    ELSE IF x.exp - y.exp > Precision + 2 THEN x
    ELSE IF y.exp - x.exp > Precision + 2 THEN y
    ELSE AddAligned(x.sign, BShl(x.mant, x.exp - Min(x.exp, y.exp)),
                    y.sign, BShl(y.mant, y.exp - Min(x.exp, y.exp)),
                    Min(x.exp, y.exp))

FSub(x, y) == FAdd(x, FNeg(y))

FMul(x, y) ==
    IF IsZero(x) \/ IsZero(y) THEN FZero
    ELSE MkFloat((x.sign + y.sign) % 2, BMul(x.mant, y.mant), x.exp + y.exp)

\* the quotient d, taken to Precision + 3 bits, gets a sticky last bit and
\* then rounds as the exact quotient does
DivRound(sign, d, e) ==
    MkFloat(sign, BAdd(BMulDigit(d.quot, 2), IF d.exact THEN <<>> ELSE <<1>>), e)

\* x / y for y # 0
FDiv(x, y) ==
    IF IsZero(x) THEN FZero
    ELSE DivRound((x.sign + y.sign) % 2,
                  BDivShift(x.mant, y.mant, Precision + 2),
                  x.exp - y.exp - (Precision + 3))

SignOf(d) == IF IsZero(d) THEN 0 ELSE IF d.sign = 1 THEN -1 ELSE 1

\* -1, 0 or 1 as x < y, x = y or x > y
FCmp(x, y) == SignOf(FSub(x, y))

FLt(x, y) == FCmp(x, y) < 0
FLe(x, y) == FCmp(x, y) <= 0
FGt(x, y) == FCmp(x, y) > 0

RECURSIVE BPow10(_)
BPow10(k) == IF k = 0 THEN <<1>> ELSE BMulDigit(BPow10(k - 1), 10)

\* the float nearest to the decimal num * 10^(-scale): a decimal numeral is
\* converted with correct rounding (10^scale is exact for scale <= 22)
Dec(num, scale) == FDiv(FromInt(num), MkFloat(0, BPow10(scale), 0))

\* the precision in which a power is carried before its one final rounding
WidePrecision == 2 * Precision + 14

WideTimes(sq, x, odd) ==
    IF odd
    THEN RoundNearestEven(BMul(sq.mant, x.mant), sq.exp + x.exp, WidePrecision)
    ELSE sq

\* h * h, times x when odd, in WidePrecision bits
WideSquare(h, x, odd) ==
    IF h.mant = <<>> THEN h
    ELSE WideTimes(RoundNearestEven(BMul(h.mant, h.mant), 2 * h.exp, WidePrecision),
                   x, odd)

\* x^n for x > 0 and an integer n >= 0, by repeated squaring
RECURSIVE WidePow(_, _)
WidePow(x, n) ==
    IF n = 0 THEN [mant |-> <<1>>, exp |-> 0]
    ELSE IF n = 1 THEN [mant |-> x.mant, exp |-> x.exp]
    ELSE WideSquare(WidePow(x, n \div 2), x, n % 2 = 1)

PowResult(r) == [raised |-> (r.exp + Precision > MaxExp), value |-> r]

PowRound(w) == PowResult(MkFloat(0, w.mant, w.exp))

\* math.pow(x, n): the float nearest to x^n; it raises OverflowError when
\* x^n is beyond the largest finite float
MathPow(x, n) == PowRound(WidePow(x, n))

RoundIntUp(q, c) ==
    BToNat(q) + (IF c > 0 \/ (c = 0 /\ BIsOdd(q)) THEN 1 ELSE 0)

RoundInt(n, k, q) ==
    RoundIntUp(q, BCmp(BSub(n, BShl(q, k)), BShl(<<1>>, k - 1)))

\* n * 2^e rounded to an integer, ties to even
Hundredths(n, e) ==
    IF e >= 0 THEN BToNat(BShl(n, e)) ELSE RoundInt(n, -e, BShr(n, -e))

\* round(x, 2): x rounded to the nearest multiple of 0.01, ties to even,
\* given as the integer number of hundredths
Round2(x) ==
    IF IsZero(x) THEN 0
    ELSE (IF x.sign = 1 THEN -1 ELSE 1) * Hundredths(BMulDigit(x.mant, 100), x.exp)

(***************************************************************************)
(* Requests: loan_details maps each key to a decimal numeral, to a string  *)
(* that is not a number, or to nothing                                     *)
(***************************************************************************)
Absent == [kind |-> "absent", num |-> 0, scale |-> 0]
Str == [kind |-> "str", num |-> 0, scale |-> 0]
Num(n, s) == [kind |-> "num", num |-> n, scale |-> s]

Request(p, r, t, d, tax, ins, pmi) ==
    [principal |-> p, annual_interest_rate |-> r, loan_term_years |-> t,
     down_payment |-> d, property_tax |-> tax, insurance |-> ins, pmi |-> pmi]

NoRequest == Request(Absent, Absent, Absent, Absent, Absent, Absent, Absent)

\* a loan_details that is no mapping, None: it has no value under any key
NoKey == [kind |-> "none", num |-> 0, scale |-> 0]

NotMapping == Request(NoKey, NoKey, NoKey, NoKey, NoKey, NoKey, NoKey)

\* float(loan_details.get(key, default))
ToFloat(v, default) ==
    IF v.kind = "absent" THEN FromInt(default) ELSE Dec(v.num, v.scale)

\* int(loan_details.get(key, default)): truncation toward zero
ToInt(v, default) ==
    IF v.kind = "absent" THEN default
    ELSE IF v.scale > 9 THEN 0
    ELSE IF v.num < 0 THEN -((-v.num) \div (10^v.scale))
    ELSE v.num \div (10^v.scale)

FloatValueError == "could not convert string to float: 'abc'"
IntValueError == "invalid literal for int() with base 10: 'abc'"
NoGetAttributeError == "'NoneType' object has no attribute 'get'"

\* coercions of which the four optional ones are put off until after the
\* checks
CoerceErrorRequiredOnly(d) ==
    IF d = NotMapping THEN NoGetAttributeError
    ELSE IF d.principal.kind = "str" \/ d.annual_interest_rate.kind = "str"
    THEN FloatValueError
    ELSE IF d.loan_term_years.kind = "str" THEN IntValueError
    ELSE ""
\* the exception raised by the seven coercions, taken in their order, or ""
CoerceError(d) ==
    IF d = NotMapping THEN NoGetAttributeError
    ELSE IF d.principal.kind = "str" \/ d.annual_interest_rate.kind = "str"
    THEN FloatValueError
    ELSE IF d.loan_term_years.kind = "str" THEN IntValueError
    ELSE IF \/ d.down_payment.kind = "str" \/ d.property_tax.kind = "str"
            \/ d.insurance.kind = "str" \/ d.pmi.kind = "str"
    THEN FloatValueError
    ELSE ""

(***************************************************************************)
(* The computations of calculate_mortgage_loan                             *)
(***************************************************************************)
PrincipalError == "Error: Loan principal must be greater than zero"
RateError == "Error: Interest rate cannot be negative"
TermError == "Error: Loan term must be greater than zero"
LoanAmountError == "Error: Loan amount after down payment must be greater than zero"

\* a check that lets a principal of zero through
PrincipalRejectedNegative(principal) == FLt(principal, FZero)
\* if principal <= 0
PrincipalRejected(principal) == FLe(principal, FZero)

\* a check that turns a rate of zero away
RateRejectedZero(annual_interest_rate) == FLe(annual_interest_rate, FZero)
\* if annual_interest_rate < 0
RateRejected(annual_interest_rate) == FLt(annual_interest_rate, FZero)

\* a check that lets a term of zero through
TermRejectedNegative(loan_term_years) == loan_term_years < 0
\* if loan_term_years <= 0
TermRejected(loan_term_years) == loan_term_years <= 0

LoanAmount(principal, down_payment) == FSub(principal, down_payment)

\* a check that lets a loan amount of zero through
LoanAmountRejectedNegative(loan_amount) == FLt(loan_amount, FZero)
\* if loan_amount <= 0
LoanAmountRejected(loan_amount) == FLe(loan_amount, FZero)

\* a validation that checks the rate before the principal
ValidationErrorRateFirst(principal, annual_interest_rate, loan_term_years, down_payment) ==
    IF RateRejected(annual_interest_rate) THEN RateError
    ELSE IF PrincipalRejected(principal) THEN PrincipalError
    ELSE IF TermRejected(loan_term_years) THEN TermError
    ELSE IF LoanAmountRejected(LoanAmount(principal, down_payment)) THEN LoanAmountError
    ELSE ""
\* a validation that also rejects negative optional amounts
ValidationErrorStrict(principal, annual_interest_rate, loan_term_years, down_payment) ==
    IF PrincipalRejected(principal) THEN PrincipalError
    ELSE IF RateRejected(annual_interest_rate) THEN RateError
    ELSE IF TermRejected(loan_term_years) THEN TermError
    ELSE IF FLt(down_payment, FZero) THEN LoanAmountError
    ELSE IF LoanAmountRejected(LoanAmount(principal, down_payment)) THEN LoanAmountError
    ELSE ""
\* the validation message of a coerced request, or "" when it is accepted
ValidationError(principal, annual_interest_rate, loan_term_years, down_payment) ==
    IF PrincipalRejected(principal) THEN PrincipalError
    ELSE IF RateRejected(annual_interest_rate) THEN RateError
    ELSE IF TermRejected(loan_term_years) THEN TermError
    ELSE IF LoanAmountRejected(LoanAmount(principal, down_payment)) THEN LoanAmountError
    ELSE ""

MonthlyInterestRate(annual_interest_rate) ==
    FDiv(FDiv(annual_interest_rate, FromInt(100)), FromInt(12))

NumPayments(loan_term_years) == loan_term_years * 12

PmiMonthly(principal, down_payment, loan_amount, pmi_rate) ==
    IF FLt(down_payment, FMul(Dec(2, 1), principal)) /\ FGt(pmi_rate, FZero)
    THEN FDiv(FDiv(FMul(loan_amount, pmi_rate), FromInt(100)), FromInt(12))
    ELSE FZero

\* numerator / denominator of the payment formula
PaymentQuotient(numerator, denominator) ==
    IF IsZero(denominator)
    THEN [raised |-> "float division by zero", value |-> FZero]
    ELSE [raised |-> "", value |-> FDiv(numerator, denominator)]

\* the payment formula, pw being math.pow(1 + monthly_interest_rate, num_payments)
AmortizedPayment(loan_amount, monthly_interest_rate, pw) ==
    IF pw.raised THEN [raised |-> "math range error", value |-> FZero]
    ELSE PaymentQuotient(FMul(loan_amount, FMul(monthly_interest_rate, pw.value)),
                         FSub(pw.value, FromInt(1)))

\* the payment formula taken at every rate, a rate of zero included
MonthlyPaymentAnnuity(loan_amount, monthly_interest_rate, num_payments) ==
    AmortizedPayment(loan_amount, monthly_interest_rate,
                     MathPow(FAdd(FromInt(1), monthly_interest_rate), num_payments))
\* the monthly payment, or the exception its computation raises
MonthlyPayment(loan_amount, monthly_interest_rate, num_payments) ==
    IF FGt(monthly_interest_rate, FZero)
    THEN AmortizedPayment(loan_amount, monthly_interest_rate,
                          MathPow(FAdd(FromInt(1), monthly_interest_rate), num_payments))
    ELSE PaymentQuotient(loan_amount, FromInt(num_payments))

\* the annual amount, not divided by 12
MonthlyEscrowAnnual(annual) == IF FGt(annual, FZero) THEN annual ELSE FZero
\* property_tax / 12 if property_tax > 0 else 0, and the same for insurance
MonthlyEscrow(annual) == IF FGt(annual, FZero) THEN FDiv(annual, FromInt(12)) ELSE FZero

\* a total that leaves the PMI out
TotalMonthlyPaymentWithoutPmi(monthly_payment, monthly_property_tax, monthly_insurance, pmi_monthly) ==
    FAdd(FAdd(monthly_payment, monthly_property_tax), monthly_insurance)
TotalMonthlyPayment(monthly_payment, monthly_property_tax, monthly_insurance, pmi_monthly) ==
    FAdd(FAdd(FAdd(monthly_payment, monthly_property_tax), monthly_insurance), pmi_monthly)

TotalPrincipalInterest(monthly_payment, num_payments) ==
    FMul(monthly_payment, FromInt(num_payments))

TotalPayment(total_principal_interest, monthly_property_tax, monthly_insurance, pmi_monthly, num_payments) ==
    FAdd(total_principal_interest,
         FMul(FAdd(FAdd(monthly_property_tax, monthly_insurance), pmi_monthly),
              FromInt(num_payments)))

\* the payments without the loan amount taken off
TotalInterestGross(total_principal_interest, loan_amount) == total_principal_interest
TotalInterest(total_principal_interest, loan_amount) ==
    FSub(total_principal_interest, loan_amount)

MonthInterest(remaining_balance, monthly_interest_rate) ==
    FMul(remaining_balance, monthly_interest_rate)

\* a period whose whole payment goes to the principal
MonthPrincipalGross(monthly_payment, month_interest) == monthly_payment
MonthPrincipal(monthly_payment, month_interest) == FSub(monthly_payment, month_interest)

\* a balance that is left as the subtraction gives it
ClampBalanceAbsent(remaining_balance) == remaining_balance
\* remaining_balance -= month_principal, then the clamp at zero
ClampBalance(remaining_balance) ==
    IF FLt(remaining_balance, FZero) THEN FZero ELSE remaining_balance

NextBalance(remaining_balance, month_principal) ==
    ClampBalance(FSub(remaining_balance, month_principal))

\* a year loop that stops one year early
YearsDoneEarly(year, loan_term_years) == year >= loan_term_years
\* the year loop is over: range(1, loan_term_years + 1) is exhausted
YearsDone(year, loan_term_years) == year > loan_term_years

\* the month loop is over: range(1, 13) is exhausted
MonthsDone(month) == month > 12

\* a month loop that never breaks
BalancePaidOffIgnored(remaining_balance) == FALSE
\* the month loop breaks
BalancePaidOff(remaining_balance) == FLe(remaining_balance, FZero)

\* the row appended for a year, its amounts in hundredths
Row(year, year_principal, year_interest, remaining_balance) ==
    [year |-> year,
     principal_paid |-> Round2(year_principal),
     interest_paid |-> Round2(year_interest),
     remaining_balance |-> Round2(remaining_balance)]

(***************************************************************************)
(* The requests the callers make                                           *)
(***************************************************************************)
MaxTerm == 2
NumCallers == 2

Callers == 1..NumCallers

GridPrincipals == {Absent, Num(0, 0), Num(-1000, 0), Num(1000, 0)}
GridRates == {Num(-1, 0), Num(0, 0), Num(45, 1), Num(12, 0)}
GridTerms == {Num(t, 0) : t \in (-1)..MaxTerm}
GridDownPayments == {Absent, Num(190, 0), Num(200, 0), Num(1000, 0), Num(1500, 0)}
GridEscrows == {<<Absent, Absent, Absent>>, <<Num(2400, 0), Num(1200, 0), Num(5, 1)>>}

GridRequests ==
    {Request(p, r, t, d, e[1], e[2], e[3]) :
        p \in GridPrincipals, r \in GridRates, t \in GridTerms,
        d \in GridDownPayments, e \in GridEscrows}

\* principal, rate and term alone
Plain(p, r, t) == Request(p, r, t, Absent, Absent, Absent, Absent)

SpecialRequests ==
    {\* 300000 at 4.5% over the default 30 years
     Plain(Num(300000, 0), Num(45, 1), Absent),
     \* a fractional term: int(1.5) is 1
     Plain(Num(1000, 0), Num(6, 0), Num(15, 1)),
     \* 300000 without interest over 30 years
     Plain(Num(300000, 0), Num(0, 0), Num(30, 0)),
     \* rounding errors grow by 1 + r a period: 100% over 30 years
     Plain(Num(300000, 0), Num(100, 0), Num(30, 0)),
     \* (1 + r)^n beyond 2^Precision: 4600% over 2 years
     Plain(Num(1000, 0), Num(4600, 0), Num(2, 0)),
     \* r below the spacing of the floats next to 1: 3e-13 % and 3.6e-13 %
     Plain(Num(1000, 0), Num(3, 13), Num(2, 0)),
     Plain(Num(1000, 0), Num(36, 14), Num(4, 0)),
     \* 1 + r = 1: 1e-14 %
     Plain(Num(1000, 0), Num(1, 14), Num(1, 0)),
     \* (1 + r)^n beyond the largest float: 1200% over 100 years
     Plain(Num(1000, 0), Num(1200, 0), Num(100, 0)),
     \* fractional terms that int() truncates to 0
     Plain(Num(1000, 0), Num(6, 0), Num(5, 1)),
     Plain(Num(1000, 0), Num(6, 0), Num(-5, 1)),
     \* a down payment of exactly a fifth of the principal, in cents
     Request(Num(11298810, 2), Num(45, 1), Num(1, 0), Num(2259762, 2), Absent, Absent, Num(5, 1)),
     \* a payment, escrow and PMI that each round down while their sum rounds up
     Request(Num(491000, 0), Num(7, 0), Num(10, 0), Num(49100, 0),
             Num(3700, 0), Num(2500, 0), Num(5, 1)),
     \* no mapping at all
     NotMapping,
     \* values that are not numbers
     Plain(Str, Num(5, 0), Num(1, 0)),
     Plain(Num(1000, 0), Num(5, 0), Str),
     Request(Num(0, 0), Num(-1, 0), Num(0, 0), Absent, Absent, Absent, Str),
     \* a negative down payment and negative escrow amounts
     Request(Num(1000, 0), Num(5, 0), Num(1, 0), Num(-500, 0), Num(-1200, 0), Num(-600, 0), Num(-1, 0))}

Requests == GridRequests \cup SpecialRequests

(***************************************************************************)
(* DebTool.deb: the queries, the pattern a query is checked against, what  *)
(* the commands print, and the strings returned                            *)
(***************************************************************************)
LowerCase ==
    {"a", "b", "c", "d", "e", "f", "g", "h", "i", "j", "k", "l", "m",
     "n", "o", "p", "q", "r", "s", "t", "u", "v", "w", "x", "y", "z"}

UpperCase ==
    {"A", "B", "C", "D", "E", "F", "G", "H", "I", "J", "K", "L", "M",
     "N", "O", "P", "Q", "R", "S", "T", "U", "V", "W", "X", "Y", "Z"}

Digits == {"0", "1", "2", "3", "4", "5", "6", "7", "8", "9"}

\* the character class [a-zA-Z0-9\-\+\.]
PackageNameChars == LowerCase \cup UpperCase \cup Digits \cup {"-", "+", "."}

CharAt(s, i) == SubSeq(s, i, i)

\* the places where $ matches: the end of the string, and the place before
\* a newline that ends the string
EndAnchors(s) ==
    {Len(s)} \cup {n \in {Len(s) - 1} : n >= 0 /\ CharAt(s, Len(s)) = "\n"}

\* re.match(r'^[a-zA-Z0-9\-\+\.]+$', query): one or more characters of the
\* class, from the start of the query to a place where $ matches
PatternMatches(query) ==
    \E n \in EndAnchors(query) :
        /\ n >= 1
        /\ \A i \in 1..n : CharAt(query, i) \in PackageNameChars

EmptyQueryError ==
    "Error: Please provide a package name or pattern to search for."

InvalidQueryError ==
    "Error: Invalid package name. Package names can only contain alphanumeric characters, hyphens, plus signs, and periods."

\* the argument lists given to subprocess.run
DpkgCommand(query) == <<"dpkg", "-l", query>>

AptCacheCommand(query) == <<"apt-cache", "search", query>>

\* the characters str.strip() removes
Whitespace == {" ", "\t", "\n", "\r"}

\* not stdout.strip()
IsBlank(stdout) == \A i \in 1..Len(stdout) : CharAt(stdout, i) \in Whitespace

\* t in s
Contains(s, t) ==
    \E i \in 1..(Len(s) - Len(t) + 1) : SubSeq(s, i, i + Len(t) - 1) = t

NoMatchNotice == "No packages found matching"

\* a test that takes the fallback when dpkg printed something
DpkgFoundNothingNegated(stdout) ==
    Contains(stdout, NoMatchNotice) \/ ~IsBlank(stdout)
\* "No packages found matching" in result.stdout or not result.stdout.strip()
DpkgFoundNothing(stdout) ==
    Contains(stdout, NoMatchNotice) \/ IsBlank(stdout)

FoundInRepositories(query, stdout) ==
    "Package '" \o query \o "' not installed, but found in repositories:\n" \o stdout

NoInformation(query) == "No information found for package '" \o query \o "'."

\* except Exception as e: return f"Error: {e}"
DebCaughtError(e) == "Error: " \o e

\* what subprocess.run does: it returns the completed process, of which the
\* tool reads stdout, or it raises
Completed(stdout) == [raised |-> FALSE, stdout |-> stdout, cause |-> ""]

Failed(e) == [raised |-> TRUE, stdout |-> "", cause |-> e]

CommandStdouts ==
    {"", " \n",
     "ii  python3    3.9.5    amd64    Python interpreter",
     "No packages found matching python3-dev",
     "python3-dev - Header files and a static library for Python"}

CommandFailures(command) ==
    {"Command failed",
     "[Errno 2] No such file or directory: '" \o command[1] \o "'"}

RunOutcomes(command) ==
    {Completed(stdout) : stdout \in CommandStdouts}
        \cup {Failed(e) : e \in CommandFailures(command)}

\* the longest query made of the characters below
MaxQueryLen == 2

QueryChars == {"a", "3", "-", "+", ".", ";", "\n"}

RECURSIVE QueriesOfLen(_)
QueriesOfLen(n) ==
    IF n = 0 THEN {""}
    ELSE {q \o ch : q \in QueriesOfLen(n - 1), ch \in QueryChars}

Queries ==
    UNION {QueriesOfLen(n) : n \in 0..MaxQueryLen}
        \cup {"python3", "python3-dev", "invalid;rm -rf /", "python3\n"}

\* the call of deb before it is made
DebIdle ==
    [pc |-> "idle", query |-> "", commands |-> <<>>, outcomes |-> <<>>,
     result |-> ""]

(***************************************************************************)
(* JobSearchTool.search_jobs: the salary range and its parsing, the jobs of *)
(* the API response, the filter and the text returned                      *)
(***************************************************************************)
\* str.replace(ch, "")
RECURSIVE RemoveChar(_, _)
RemoveChar(s, ch) ==
    IF s = "" THEN ""
    ELSE IF CharAt(s, 1) = ch THEN RemoveChar(SubSeq(s, 2, Len(s)), ch)
    ELSE CharAt(s, 1) \o RemoveChar(SubSeq(s, 2, Len(s)), ch)

\* the place of the first ch of s, or 0
FirstIndex(s, ch) ==
    IF \E k \in 1..Len(s) : CharAt(s, k) = ch
    THEN CHOOSE k \in 1..Len(s) :
            CharAt(s, k) = ch /\ \A j \in 1..(k - 1) : CharAt(s, j) # ch
    ELSE 0

\* str.split(ch)
RECURSIVE Split(_, _)
SplitAt(s, ch, k) ==
    IF k = 0 THEN <<s>>
    ELSE <<SubSeq(s, 1, k - 1)>> \o Split(SubSeq(s, k + 1, Len(s)), ch)

Split(s, ch) == SplitAt(s, ch, FirstIndex(s, ch))

\* str.strip(), as int() applies it to its argument
RECURSIVE Strip(_)
Strip(s) ==
    IF s = "" THEN ""
    ELSE IF CharAt(s, 1) \in Whitespace THEN Strip(SubSeq(s, 2, Len(s)))
    ELSE IF CharAt(s, Len(s)) \in Whitespace THEN Strip(SubSeq(s, 1, Len(s) - 1))
    ELSE s

\* the digits of an int literal: blanks around it and a plus sign are dropped
UnsignedDigits(s) ==
    IF s # "" /\ CharAt(s, 1) = "+" THEN SubSeq(s, 2, Len(s)) ELSE s

IsIntLiteral(s) ==
    /\ UnsignedDigits(Strip(s)) # ""
    /\ \A i \in 1..Len(UnsignedDigits(Strip(s))) :
            CharAt(UnsignedDigits(Strip(s)), i) \in Digits

DigitChars == <<"0", "1", "2", "3", "4", "5", "6", "7", "8", "9">>

DigitValue(ch) == (CHOOSE k \in 1..10 : DigitChars[k] = ch) - 1

RECURSIVE DigitsValue(_)
DigitsValue(d) ==
    IF d = "" THEN 0
    ELSE 10 * DigitsValue(SubSeq(d, 1, Len(d) - 1)) + DigitValue(CharAt(d, Len(d)))

\* int(s) for an int literal
ParseInt(s) == DigitsValue(UnsignedDigits(Strip(s)))

InvalidLiteral(s) == "invalid literal for int() with base 10: '" \o s \o "'"

\* salary_range.replace("$", "").replace(",", "").split("-")
SalaryParts(salary_range) ==
    Split(RemoveChar(RemoveChar(salary_range, "$"), ","), "-")

\* the exception raised by min_salary, max_salary = map(int, parts), or "":
\* the unpacking converts the parts one at a time, and asks for a third
\* part to see that there is none
UnpackError(parts) ==
    IF ~IsIntLiteral(parts[1]) THEN InvalidLiteral(parts[1])
    ELSE IF Len(parts) = 1 THEN "not enough values to unpack (expected 2, got 1)"
    ELSE IF ~IsIntLiteral(parts[2]) THEN InvalidLiteral(parts[2])
    ELSE IF Len(parts) = 2 THEN ""
    ELSE IF ~IsIntLiteral(parts[3]) THEN InvalidLiteral(parts[3])
    ELSE "too many values to unpack (expected 2)"

Job(title, company, location, salary, description, remote, skills) ==
    [title |-> title, company |-> company, location |-> location,
     salary |-> salary, description |-> description, remote |-> remote,
     skills |-> skills]

\* the response of _mock_job_search_api
MockJobs ==
    <<Job("Senior Rust Engineer", "TechCorp Inc.", "San Francisco, CA", 145000,
          "We're looking for a senior Rust engineer to join our distributed systems team. Experience with WebAssembly and cloud infrastructure required.",
          TRUE, <<"Rust", "WebAssembly", "Distributed Systems">>),
      Job("Rust Backend Developer", "Blockchain Innovations", "San Francisco, CA", 135000,
          "Join our team building the next generation of blockchain infrastructure using Rust and WebAssembly.",
          TRUE, <<"Rust", "Blockchain", "Backend">>),
      Job("Rust Systems Engineer", "Security Solutions", "San Francisco, CA", 140000,
          "Help us build secure, high-performance systems using Rust. Experience with low-level programming and security concepts required.",
          TRUE, <<"Rust", "Systems Programming", "Security">>),
      Job("Rust Developer", "StartupXYZ", "San Francisco, CA", 125000,
          "Looking for a Rust developer to help build our core infrastructure. Experience with async Rust and networking required.",
          TRUE, <<"Rust", "Async", "Networking">>),
      Job("Senior Rust Engineer", "FinTech Solutions", "San Francisco, CA", 155000,
          "Join our team building high-frequency trading systems in Rust.",
          TRUE, <<"Rust", "Finance", "Trading">>)>>

\* the jobs of the responses a patched _mock_job_search_api gives
PatchedJobs ==
    {MockJobs[2],
     Job("Rust Engineer", "Onsite Ltd", "San Francisco, CA", 130000, "On site.", FALSE, <<"Rust">>),
     Job("Go Engineer", "Gophers", "San Francisco, CA", 130000, "Go and Rustup.", TRUE, <<"Go", "Rustup">>),
     Job("Rust Engineer", "East Bay", "Oakland, CA", 130000, "Across the bay.", TRUE, <<"Rust">>),
     Job("Rust Engineer", "Southern", "South San Francisco, CA", 120000, "Lower bound.", TRUE, <<"Tokio", "Rust">>),
     Job("Rust Architect", "Upper", "San Francisco, CA", 150000, "Upper bound.", TRUE, <<"Rust">>)}

\* the longest patched response
MaxJobs == 2

RECURSIVE ResponsesOfLen(_)
ResponsesOfLen(n) ==
    IF n = 0 THEN {<<>>}
    ELSE {Append(jobs, job) : jobs \in ResponsesOfLen(n - 1), job \in PatchedJobs}

Responses == {MockJobs} \cup UNION {ResponsesOfLen(n) : n \in 0..MaxJobs}

ApiFailures == {"API connection error"}

SalaryRanges ==
    {"$120,000-150,000", "$130,000-150,000", "$140,000-$140,000",
     "$155,000-155,000", " 120000 - +150000 ", "150000-120000",
     "invalid_salary", "120000", "1-2-3", "1-2-x"}

\* the most jobs listed
MaxListed == 3

\* a filter that lists a fourth job
ListFullAtFour(filtered_jobs) == Len(filtered_jobs) >= MaxListed + 1
\* if len(filtered_jobs) >= 3: break
ListFull(filtered_jobs) == Len(filtered_jobs) >= MaxListed

\* the four criteria of a job
JobMatches(job, min_salary, max_salary) ==
    /\ job.remote
    /\ \E i \in 1..Len(job.skills) : job.skills[i] = "Rust"
    /\ Contains(job.location, "San Francisco")
    /\ min_salary <= job.salary /\ job.salary <= max_salary

RECURSIVE NatToStr(_)
NatToStr(n) ==
    IF n < 10 THEN DigitChars[n + 1]
    ELSE NatToStr(n \div 10) \o DigitChars[(n % 10) + 1]

\* f"{n:,}"
RECURSIVE Thousands(_)
Thousands(n) ==
    IF n < 1000 THEN NatToStr(n)
    ELSE Thousands(n \div 1000) \o "," \o DigitChars[((n % 1000) \div 100) + 1]
            \o DigitChars[((n % 100) \div 10) + 1] \o DigitChars[(n % 10) + 1]

\* the dictionary appended to filtered_jobs
ListedJob(job) ==
    [title |-> job.title, company |-> job.company, location |-> job.location,
     salary |-> "$" \o Thousands(job.salary),
     description |-> SubSeq(job.description, 1, Min(100, Len(job.description))) \o "...",
     remote |-> "Yes"]

NoJobsFound == "No jobs found matching your criteria."

\* the lines of the i-th listed job
JobLines(i, job) ==
    NatToStr(i) \o ". " \o job.title \o " at " \o job.company \o "\n"
        \o "   Location: " \o job.location \o " (Remote: " \o job.remote \o ")\n"
        \o "   Salary: " \o job.salary \o "\n"
        \o "   Description: " \o job.description \o "\n\n"

RECURSIVE JobsLines(_, _)
JobsLines(filtered_jobs, n) ==
    IF n = 0 THEN ""
    ELSE JobsLines(filtered_jobs, n - 1) \o JobLines(n, filtered_jobs[n])

\* the text returned
FormatJobs(filtered_jobs) ==
    IF filtered_jobs = <<>> THEN NoJobsFound
    ELSE "Found " \o NatToStr(Len(filtered_jobs))
            \o " remote Rust engineering positions in San Francisco:\n\n"
            \o JobsLines(filtered_jobs, Len(filtered_jobs))

\* the call of search_jobs before it is made
SearchIdle ==
    [pc |-> "idle", salary_range |-> "", min_salary |-> 0, max_salary |-> 0,
     jobs |-> <<>>, next |-> 1, filtered_jobs |-> <<>>, raised |-> "",
     result |-> ""]

(***************************************************************************)
(* State: for each caller, where its call of calculate_mortgage_loan is,   *)
(* the argument, the local variables and the value returned                *)
(***************************************************************************)
\* the requests whose outputs are followed from call to call
FollowedRequests ==
    {Plain(Num(1000, 0), Num(12, 0), Num(1, 0)),
     \* paid off after nine periods: the month loop breaks
     Plain(Num(1000, 0), Num(36, 14), Num(1, 0)),
     Plain(Num(1000, 0), Num(-1, 0), Num(1, 0)),
     Plain(Str, Num(5, 0), Num(1, 0))}

\* the requests made by callers that do not wait for one another
ConcurrentRequests ==
    {Plain(Num(1000, 0), Num(12, 0), Num(1, 0)),
     Plain(Num(1000, 0), Num(36, 14), Num(1, 0)),
     Plain(Num(1000, 0), Num(-1, 0), Num(1, 0))}

\* the calls that can be in progress at one time
MaxRunning == 2

\* outputs is history: for each of the requests followed, what the calls
\* made with it have returned so far.  deb is the call of DebTool.deb and
\* search the call of JobSearchTool.search_jobs.
VARIABLES pc, loan_details, locals, result, outputs, deb, search

vars == <<pc, loan_details, locals, result, outputs, deb, search>>

\* the local variables before any is bound; periods counts the period
\* steps the call has simulated, rows_principal and rows_interest add up the
\* year_principal and year_interest of the rows appended, before rounding
Unbound ==
    [principal |-> FZero, annual_interest_rate |-> FZero, loan_term_years |-> 0,
     down_payment |-> FZero, property_tax |-> FZero, insurance |-> FZero,
     pmi_rate |-> FZero, loan_amount |-> FZero, monthly_interest_rate |-> FZero,
     num_payments |-> 0, pmi_monthly |-> FZero, monthly_payment |-> FZero,
     monthly_property_tax |-> FZero, monthly_insurance |-> FZero,
     total_monthly_payment |-> FZero, total_principal_interest |-> FZero,
     total_payment |-> FZero, total_interest |-> FZero,
     amortization_schedule |-> <<>>, remaining_balance |-> FZero,
     year |-> 0, month |-> 0, year_interest |-> FZero, year_principal |-> FZero,
     periods |-> 0, rows_principal |-> FZero, rows_interest |-> FZero]

NoResult == [type |-> "none"]

\* an except clause that returns the exception's text alone
CaughtErrorBare(e) == e
\* except Exception as e: return f"Error: {e}"
CaughtError(e) == "Error: " \o e

ErrorString(msg) == [type |-> "str", value |-> msg]

\* an exception that leaves calculate_mortgage_loan
Raised(e) == [type |-> "raised", value |-> e]

\* an except clause that logs the exception and raises it again
ExceptClauseReraises(e) == Raised(e)
\* the except clause: the exception is logged and returned as a string
ExceptClause(e) == ErrorString(CaughtError(e))

\* the dictionary returned, its amounts in hundredths
ResultDict(l) ==
    [type |-> "dict",
     monthly_payment |-> Round2(l.monthly_payment),
     total_monthly_payment |-> Round2(l.total_monthly_payment),
     total_payment |-> Round2(l.total_payment),
     total_interest |-> Round2(l.total_interest),
     monthly_breakdown |->
        [principal_and_interest |-> Round2(l.monthly_payment),
         property_tax |-> Round2(l.monthly_property_tax),
         insurance |-> Round2(l.monthly_insurance),
         pmi |-> Round2(l.pmi_monthly)],
     amortization_schedule |-> l.amortization_schedule]

Init ==
    /\ pc = [c \in Callers |-> "idle"]
    /\ loan_details = [c \in Callers |-> NoRequest]
    /\ locals = [c \in Callers |-> Unbound]
    /\ result = [c \in Callers |-> NoResult]
    /\ outputs = [d \in FollowedRequests |-> {}]
    /\ deb = DebIdle
    /\ search = SearchIdle

\* the caller invokes calculate_mortgage_loan(loan_details)
Call(c, d) ==
    /\ pc[c] = "idle"
    /\ pc' = [pc EXCEPT ![c] = "coerce"]
    /\ loan_details' = [loan_details EXCEPT ![c] = d]
    /\ UNCHANGED <<locals, result>>
    /\ UNCHANGED <<outputs, deb, search>>

\* the return of an error string
ReturnError(c, msg) ==
    /\ pc' = [pc EXCEPT ![c] = "done"]
    /\ result' = [result EXCEPT ![c] = ErrorString(msg)]

\* an exception raised in the try block reaches the except clause
ReturnCaught(c, e) ==
    /\ pc' = [pc EXCEPT ![c] = "done"]
    /\ result' = [result EXCEPT ![c] = ExceptClause(e)]

\* the seven coercions; an exception is caught by the except clause
Coerce(c) ==
    /\ pc[c] = "coerce"
    /\ LET d == loan_details[c]
       IN  IF CoerceError(d) # ""
           THEN /\ ReturnCaught(c, CoerceError(d))
                /\ UNCHANGED locals
           ELSE /\ locals' = [locals EXCEPT ![c] =
                      [@ EXCEPT !.principal = ToFloat(d.principal, 0),
                                !.annual_interest_rate = ToFloat(d.annual_interest_rate, 0),
                                !.loan_term_years = ToInt(d.loan_term_years, 30),
                                !.down_payment = ToFloat(d.down_payment, 0),
                                !.property_tax = ToFloat(d.property_tax, 0),
                                !.insurance = ToFloat(d.insurance, 0),
                                !.pmi_rate = ToFloat(d.pmi, 0)]]
                /\ pc' = [pc EXCEPT ![c] = "validate"]
                /\ UNCHANGED result
    /\ UNCHANGED loan_details
    /\ UNCHANGED <<outputs, deb, search>>

\* the four checks and the loan amount
Validate(c) ==
    /\ pc[c] = "validate"
    /\ \E err \in {ValidationError(locals[c].principal, locals[c].annual_interest_rate,
                                   locals[c].loan_term_years, locals[c].down_payment)} :
           IF err # ""
           THEN /\ ReturnError(c, err)
                /\ UNCHANGED locals
           ELSE /\ locals' = [locals EXCEPT ![c] =
                      [@ EXCEPT !.loan_amount =
                            LoanAmount(locals[c].principal, locals[c].down_payment)]]
                /\ pc' = [pc EXCEPT ![c] = "solve"]
                /\ UNCHANGED result
    /\ UNCHANGED loan_details
    /\ UNCHANGED <<outputs, deb, search>>

\* the rows of a result returned earlier
EarlierRows(dicts) ==
    IF dicts = {} THEN <<>> ELSE (CHOOSE o \in dicts : TRUE).amortization_schedule

\* a schedule list that is kept between calls instead of being created anew
SolvedSharedSchedule(l, r, n, pmi, monthly_payment, tax, ins, tpi) ==
    [l EXCEPT !.monthly_interest_rate = r,
              !.num_payments = n,
              !.pmi_monthly = pmi,
              !.monthly_payment = monthly_payment,
              !.monthly_property_tax = tax,
              !.monthly_insurance = ins,
              !.total_monthly_payment = TotalMonthlyPayment(monthly_payment, tax, ins, pmi),
              !.total_principal_interest = tpi,
              !.total_payment = TotalPayment(tpi, tax, ins, pmi, n),
              !.total_interest = TotalInterest(tpi, l.loan_amount),
              !.amortization_schedule =
                  EarlierRows({o \in UNION {outputs[d] : d \in FollowedRequests} :
                                  o.type = "dict"}),
              !.remaining_balance = l.loan_amount,
              !.year = 1]
\* a payment that carries the monthly property tax
SolvedEscrowInPayment(l, r, n, pmi, monthly_payment, tax, ins, tpi) ==
    [l EXCEPT !.monthly_interest_rate = r,
              !.num_payments = n,
              !.pmi_monthly = pmi,
              !.monthly_payment = FAdd(monthly_payment, tax),
              !.monthly_property_tax = tax,
              !.monthly_insurance = ins,
              !.total_monthly_payment = TotalMonthlyPayment(monthly_payment, tax, ins, pmi),
              !.total_principal_interest = tpi,
              !.total_payment = TotalPayment(tpi, tax, ins, pmi, n),
              !.total_interest = TotalInterest(tpi, l.loan_amount),
              !.amortization_schedule = <<>>,
              !.remaining_balance = l.loan_amount,
              !.year = 1]
\* the locals bound once the payment is known
Solved(l, r, n, pmi, monthly_payment, tax, ins, tpi) ==
    [l EXCEPT !.monthly_interest_rate = r,
              !.num_payments = n,
              !.pmi_monthly = pmi,
              !.monthly_payment = monthly_payment,
              !.monthly_property_tax = tax,
              !.monthly_insurance = ins,
              !.total_monthly_payment = TotalMonthlyPayment(monthly_payment, tax, ins, pmi),
              !.total_principal_interest = tpi,
              !.total_payment = TotalPayment(tpi, tax, ins, pmi, n),
              !.total_interest = TotalInterest(tpi, l.loan_amount),
              !.amortization_schedule = <<>>,
              !.remaining_balance = l.loan_amount,
              !.year = 1]

\* the rate, the number of payments, PMI, the payment, escrow and totals,
\* then the initialisation of the schedule
Solve(c) ==
    /\ pc[c] = "solve"
    /\ \E r \in {MonthlyInterestRate(locals[c].annual_interest_rate)},
          n \in {NumPayments(locals[c].loan_term_years)},
          pmi \in {PmiMonthly(locals[c].principal, locals[c].down_payment,
                              locals[c].loan_amount, locals[c].pmi_rate)} :
         \E mp \in {MonthlyPayment(locals[c].loan_amount, r, n)} :
           IF mp.raised # ""
           THEN /\ ReturnCaught(c, mp.raised)
                /\ locals' = [locals EXCEPT ![c] =
                      [@ EXCEPT !.monthly_interest_rate = r,
                                !.num_payments = n,
                                !.pmi_monthly = pmi]]
           ELSE /\ locals' = [locals EXCEPT ![c] =
                      Solved(locals[c], r, n, pmi, mp.value,
                             MonthlyEscrow(locals[c].property_tax),
                             MonthlyEscrow(locals[c].insurance),
                             TotalPrincipalInterest(mp.value, n))]
                /\ pc' = [pc EXCEPT ![c] = "year"]
                /\ UNCHANGED result
    /\ UNCHANGED loan_details
    /\ UNCHANGED <<outputs, deb, search>>

\* the head of the year loop, with the reset of the year's sums
YearStart(c) ==
    /\ pc[c] = "year"
    /\ ~YearsDone(locals[c].year, locals[c].loan_term_years)
    /\ locals' = [locals EXCEPT ![c] =
          [@ EXCEPT !.year_interest = FZero, !.year_principal = FZero, !.month = 1]]
    /\ pc' = [pc EXCEPT ![c] = "month"]
    /\ UNCHANGED <<loan_details, result>>
    /\ UNCHANGED <<outputs, deb, search>>

\* a period that takes the balance from the first caller's accumulator, as
\* if remaining_balance were kept on the tool instance
MonthStepShared(c) ==
    /\ pc[c] = "month"
    /\ ~MonthsDone(locals[c].month)
    /\ ~BalancePaidOff(locals[c].remaining_balance)
    /\ \E month_interest \in {MonthInterest(locals[1].remaining_balance,
                                            locals[c].monthly_interest_rate)} :
         \E month_principal \in {MonthPrincipal(locals[c].monthly_payment, month_interest)} :
           locals' = [locals EXCEPT ![c] =
              [@ EXCEPT !.year_interest = FAdd(@, month_interest),
                        !.year_principal = FAdd(@, month_principal),
                        !.remaining_balance =
                            NextBalance(locals[1].remaining_balance, month_principal),
                        !.month = @ + 1,
                        !.periods = @ + 1]]
    /\ UNCHANGED <<pc, loan_details, result, outputs, deb, search>>

\* one period: interest, principal, the sums and the balance
MonthStep(c) ==
    /\ pc[c] = "month"
    /\ ~MonthsDone(locals[c].month)
    /\ ~BalancePaidOff(locals[c].remaining_balance)
    /\ \E month_interest \in {MonthInterest(locals[c].remaining_balance,
                                            locals[c].monthly_interest_rate)} :
         \E month_principal \in {MonthPrincipal(locals[c].monthly_payment, month_interest)} :
           locals' = [locals EXCEPT ![c] =
              [@ EXCEPT !.year_interest = FAdd(@, month_interest),
                        !.year_principal = FAdd(@, month_principal),
                        !.remaining_balance = NextBalance(@, month_principal),
                        !.month = @ + 1,
                        !.periods = @ + 1]]
    /\ UNCHANGED <<pc, loan_details, result>>
    /\ UNCHANGED <<outputs, deb, search>>

\* the break out of the month loop once the balance is paid off
MonthBreak(c) ==
    /\ pc[c] = "month"
    /\ ~MonthsDone(locals[c].month)
    /\ BalancePaidOff(locals[c].remaining_balance)
    /\ pc' = [pc EXCEPT ![c] = "append"]
    /\ UNCHANGED <<loan_details, locals, result>>
    /\ UNCHANGED <<outputs, deb, search>>

\* the month loop runs out after twelve periods
MonthEnd(c) ==
    /\ pc[c] = "month"
    /\ MonthsDone(locals[c].month)
    /\ pc' = [pc EXCEPT ![c] = "append"]
    /\ UNCHANGED <<loan_details, locals, result>>
    /\ UNCHANGED <<outputs, deb, search>>

\* the year's row is appended and the year loop goes on
AppendRow(c) ==
    /\ pc[c] = "append"
    /\ LET l == locals[c]
       IN  locals' = [locals EXCEPT ![c] =
              [@ EXCEPT !.amortization_schedule =
                            Append(l.amortization_schedule,
                                   Row(l.year, l.year_principal, l.year_interest,
                                       l.remaining_balance)),
                        !.rows_principal = FAdd(@, l.year_principal),
                        !.rows_interest = FAdd(@, l.year_interest),
                        !.year = l.year + 1]]
    /\ pc' = [pc EXCEPT ![c] = "year"]
    /\ UNCHANGED <<loan_details, result>>
    /\ UNCHANGED <<outputs, deb, search>>

\* the year loop is over: the result is assembled and returned
Assemble(c) ==
    /\ pc[c] = "year"
    /\ YearsDone(locals[c].year, locals[c].loan_term_years)
    /\ pc' = [pc EXCEPT ![c] = "done"]
    /\ result' = [result EXCEPT ![c] = ResultDict(locals[c])]
    /\ UNCHANGED <<loan_details, locals>>
    /\ UNCHANGED <<outputs, deb, search>>

\* the caller takes the returned value; the call's frame is gone
FrameEnds(c) ==
    /\ pc[c] = "done"
    /\ pc' = [pc EXCEPT ![c] = "idle"]
    /\ loan_details' = [loan_details EXCEPT ![c] = NoRequest]
    /\ locals' = [locals EXCEPT ![c] = Unbound]
    /\ result' = [result EXCEPT ![c] = NoResult]

Return(c) ==
    /\ FrameEnds(c)
    /\ UNCHANGED <<outputs, deb, search>>

\* the return, with the value returned added to the history of its request
ReturnRecorded(c) ==
    /\ FrameEnds(c)
    /\ outputs' = [outputs EXCEPT ![loan_details[c]] = @ \cup {result[c]}]
    /\ UNCHANGED <<deb, search>>

\* calls are made one at a time: the engine is synchronous
SequentialCall(c) ==
    /\ \A other \in Callers : pc[other] = "idle"
    /\ \E d \in Requests : Call(c, d)

Next ==
    \E c \in Callers :
        \/ SequentialCall(c)
        \/ Coerce(c)
        \/ Validate(c)
        \/ Solve(c)
        \/ YearStart(c)
        \/ MonthStep(c)
        \/ MonthBreak(c)
        \/ MonthEnd(c)
        \/ AppendRow(c)
        \/ Assemble(c)
        \/ Return(c)

Spec == Init /\ [][Next]_vars

\* the computation of a call, step by step
Step(c) ==
    \/ Coerce(c)
    \/ Validate(c)
    \/ Solve(c)
    \/ YearStart(c)
    \/ MonthStep(c)
    \/ MonthBreak(c)
    \/ MonthEnd(c)
    \/ AppendRow(c)
    \/ Assemble(c)

\* a call with one of the requests followed, made while no call is running
FollowedCall(c) ==
    /\ \A other \in Callers : pc[other] = "idle"
    /\ \E d \in FollowedRequests : Call(c, d)

\* the same requests made again and again, one call at a time
NextRepeated ==
    \E c \in Callers : FollowedCall(c) \/ Step(c) \/ ReturnRecorded(c)

SpecRepeated == Init /\ [][NextRepeated]_vars

\* a call made whatever the other callers are doing: the steps of the calls
\* of several threads on one tool instance interleave
ConcurrentCall(c) ==
    /\ Cardinality({other \in Callers : pc[other] # "idle"}) < MaxRunning
    /\ \E d \in ConcurrentRequests : Call(c, d)

NextConcurrent ==
    \E c \in Callers : ConcurrentCall(c) \/ Step(c) \/ ReturnRecorded(c)

SpecConcurrent == Init /\ [][NextConcurrent]_vars

\* two loans, each asked for without and with property tax, insurance and pmi
PairedRequests ==
    {Request(Num(1000, 0), Num(45, 1), Num(1, 0), Num(190, 0), Absent, Absent, Absent),
     Request(Num(1000, 0), Num(45, 1), Num(1, 0), Num(190, 0), Num(2400, 0), Num(1200, 0), Num(5, 1)),
     Request(Num(1000, 0), Num(36, 14), Num(1, 0), Absent, Absent, Absent, Absent),
     Request(Num(1000, 0), Num(36, 14), Num(1, 0), Absent, Num(2400, 0), Num(1200, 0), Num(5, 1))}

\* a call with one of them, made next to the call of another caller
PairedCall(c) ==
    /\ Cardinality({other \in Callers : pc[other] # "idle"}) < MaxRunning
    /\ \E d \in PairedRequests : Call(c, d)

NextPaired ==
    \E c \in Callers : PairedCall(c) \/ Step(c) \/ Return(c)

SpecPaired == Init /\ [][NextPaired]_vars

(***************************************************************************)
(* DebTool.deb(query).  deb.commands is the commands the call has run and  *)
(* deb.outcomes what each of them did                                      *)
(***************************************************************************)
calc_vars == <<pc, loan_details, locals, result, outputs>>

DebCall(query) ==
    /\ deb.pc = "idle"
    /\ deb' = [DebIdle EXCEPT !.pc = "check", !.query = query]
    /\ UNCHANGED <<calc_vars, search>>

\* return value
DebAnswer(d, value) == [d EXCEPT !.pc = "done", !.result = value]

\* the two checks of the query
DebChecked(d) ==
    IF d.query = "" THEN DebAnswer(d, EmptyQueryError)
    ELSE IF ~PatternMatches(d.query) THEN DebAnswer(d, InvalidQueryError)
    ELSE [d EXCEPT !.pc = "dpkg"]

DebCheck ==
    /\ deb.pc = "check"
    /\ deb' = DebChecked(deb)
    /\ UNCHANGED <<calc_vars, search>>

\* subprocess.run(command, capture_output=True, text=True)
DebRan(d, command, outcome) ==
    [d EXCEPT !.commands = Append(@, command), !.outcomes = Append(@, outcome)]

\* after dpkg -l: the exception is caught, the fallback is taken, or what
\* dpkg printed is returned
AfterDpkg(d, outcome) ==
    IF outcome.raised THEN DebAnswer(d, DebCaughtError(outcome.cause))
    ELSE IF DpkgFoundNothing(outcome.stdout) THEN [d EXCEPT !.pc = "apt-cache"]
    ELSE DebAnswer(d, outcome.stdout)

DebDpkg ==
    /\ deb.pc = "dpkg"
    /\ \E outcome \in RunOutcomes(DpkgCommand(deb.query)) :
        deb' = AfterDpkg(DebRan(deb, DpkgCommand(deb.query), outcome), outcome)
    /\ UNCHANGED <<calc_vars, search>>

\* after apt-cache search
AfterAptCache(d, outcome) ==
    IF outcome.raised THEN DebAnswer(d, DebCaughtError(outcome.cause))
    ELSE IF ~IsBlank(outcome.stdout)
        THEN DebAnswer(d, FoundInRepositories(d.query, outcome.stdout))
    ELSE DebAnswer(d, NoInformation(d.query))

DebAptCache ==
    /\ deb.pc = "apt-cache"
    /\ \E outcome \in RunOutcomes(AptCacheCommand(deb.query)) :
        deb' = AfterAptCache(DebRan(deb, AptCacheCommand(deb.query), outcome), outcome)
    /\ UNCHANGED <<calc_vars, search>>

\* the caller takes the string returned
DebReturn ==
    /\ deb.pc = "done"
    /\ deb' = DebIdle
    /\ UNCHANGED <<calc_vars, search>>

NextDeb ==
    \/ \E query \in Queries : DebCall(query)
    \/ DebCheck
    \/ DebDpkg
    \/ DebAptCache
    \/ DebReturn

SpecDeb == Init /\ [][NextDeb]_vars

(***************************************************************************)
(* JobSearchTool.search_jobs(salary_range).  search.jobs is the response   *)
(* of the API, search.next the place in it of the job the loop takes next  *)
(***************************************************************************)
tool_vars == <<pc, loan_details, locals, result, outputs, deb>>

SearchCall(salary_range) ==
    /\ search.pc = "idle"
    /\ search' = [SearchIdle EXCEPT !.pc = "parse", !.salary_range = salary_range]
    /\ UNCHANGED tool_vars

\* except Exception as e: return f"Error: {e}"
SearchCaught(s, e) ==
    [s EXCEPT !.pc = "done", !.raised = e, !.result = "Error: " \o e]

\* the parsing of the salary range
SearchParsed(s, parts) ==
    IF UnpackError(parts) # "" THEN SearchCaught(s, UnpackError(parts))
    ELSE [s EXCEPT !.pc = "api", !.min_salary = ParseInt(parts[1]),
                   !.max_salary = ParseInt(parts[2])]

SearchParse ==
    /\ search.pc = "parse"
    /\ search' = SearchParsed(search, SalaryParts(search.salary_range))
    /\ UNCHANGED tool_vars

\* the call of the API: it answers, or it raises
SearchApi ==
    /\ search.pc = "api"
    /\ \/ \E jobs \in Responses : search' = [search EXCEPT !.pc = "filter", !.jobs = jobs]
       \/ \E e \in ApiFailures : search' = SearchCaught(search, e)
    /\ UNCHANGED tool_vars

\* filtered_jobs after the loop has taken the job
Filtered(s, job) ==
    IF JobMatches(job, s.min_salary, s.max_salary)
    THEN Append(s.filtered_jobs, ListedJob(job))
    ELSE s.filtered_jobs

\* one turn of the loop over the jobs of the response
SearchFilter ==
    /\ search.pc = "filter"
    /\ search.next <= Len(search.jobs)
    /\ ~ListFull(search.filtered_jobs)
    /\ search' = [search EXCEPT !.next = @ + 1,
                                !.filtered_jobs = Filtered(search, search.jobs[search.next])]
    /\ UNCHANGED tool_vars

\* the loop is over, or it breaks: the text is made and returned
SearchFormat ==
    /\ search.pc = "filter"
    /\ search.next > Len(search.jobs) \/ ListFull(search.filtered_jobs)
    /\ search' = [search EXCEPT !.pc = "done", !.result = FormatJobs(search.filtered_jobs)]
    /\ UNCHANGED tool_vars

\* the caller takes the text returned
SearchReturn ==
    /\ search.pc = "done"
    /\ search' = SearchIdle
    /\ UNCHANGED tool_vars

NextSearch ==
    \/ \E salary_range \in SalaryRanges : SearchCall(salary_range)
    \/ SearchParse
    \/ SearchApi
    \/ SearchFilter
    \/ SearchFormat
    \/ SearchReturn

SpecSearch == Init /\ [][NextSearch]_vars

(***************************************************************************)
(* Properties.  The hypotheses are read off the request a call was made    *)
(* with, the conclusions off what the call returned.  Amounts returned are *)
(* in hundredths.                                                          *)
(***************************************************************************)
Returned(c) == pc[c] = "done"

\* the seven coercions of the request succeed
Coerces(d) == CoerceError(d) = ""

\* a < b for request values: a.num / 10^a.scale < b.num / 10^b.scale
DecLt(a, b) == a.num * 10^b.scale < b.num * 10^a.scale

\* a request value in hundredths, for a value with at most two decimals
Cents(v) == (v.num * 100) \div 10^v.scale

Abs(n) == IF n < 0 THEN -n ELSE n

\* principal > 0, as the request gives it (no principal is a principal of 0)
PrincipalPositive(d) == d.principal.num > 0

\* loan_term_years <= 0, as the request gives it
TermNotPositive(d) == d.loan_term_years.kind = "num" /\ d.loan_term_years.num <= 0

\* the result is a dictionary
IsDict(r) == r.type = "dict"

\* C1: a call whose request coerces and whose principal is <= 0, or missing,
\* returns the error string naming the principal, whatever the other fields
NonPositivePrincipalIsRejected ==
    \A c \in Callers :
        (Returned(c) /\ Coerces(loan_details[c]) /\ ~PrincipalPositive(loan_details[c]))
            => result[c] = ErrorString(PrincipalError)

\* a request without principal, with a negative rate and a term of 0, has
\* been answered with the principal error
MissingPrincipalRejected ==
    \E c \in Callers :
        /\ Returned(c)
        /\ loan_details[c].principal = Absent
        /\ loan_details[c].annual_interest_rate = Num(-1, 0)
        /\ loan_details[c].loan_term_years = Num(0, 0)
        /\ result[c] = ErrorString(PrincipalError)

\* C2: a call with principal > 0 returns the error string naming the rate
\* exactly when annual_interest_rate < 0; with a rate of 0, a positive term
\* and a down payment below the principal it returns a dictionary
NegativeRateIsRejected ==
    \A c \in Callers :
        (Returned(c) /\ Coerces(loan_details[c]) /\ PrincipalPositive(loan_details[c]))
            => /\ (result[c] = ErrorString(RateError))
                    <=> (loan_details[c].annual_interest_rate.num < 0)
               /\ ( /\ loan_details[c].annual_interest_rate.num = 0
                    /\ ToInt(loan_details[c].loan_term_years, 30) > 0
                    /\ DecLt(loan_details[c].down_payment, loan_details[c].principal) )
                    => IsDict(result[c])

\* a request with principal 1000, rate -1 and term 0 has been answered with
\* the rate error
NegativeRateRejected ==
    \E c \in Callers :
        /\ Returned(c)
        /\ loan_details[c].principal = Num(1000, 0)
        /\ loan_details[c].annual_interest_rate = Num(-1, 0)
        /\ loan_details[c].loan_term_years = Num(0, 0)
        /\ result[c] = ErrorString(RateError)

\* C3: a call with principal > 0, annual_interest_rate >= 0 and
\* loan_term_years <= 0 never has an amortization row and returns the error
\* string naming the term
NonPositiveTermIsRejected ==
    \A c \in Callers :
        ( /\ Coerces(loan_details[c])
          /\ PrincipalPositive(loan_details[c])
          /\ loan_details[c].annual_interest_rate.num >= 0
          /\ TermNotPositive(loan_details[c]) )
            => /\ locals[c].amortization_schedule = <<>>
               /\ Returned(c) => result[c] = ErrorString(TermError)

\* a request with principal 1000, rate 0 and term -1 has been answered with
\* the term error
NegativeTermRejected ==
    \E c \in Callers :
        /\ Returned(c)
        /\ loan_details[c].principal = Num(1000, 0)
        /\ loan_details[c].annual_interest_rate = Num(0, 0)
        /\ loan_details[c].loan_term_years = Num(-1, 0)
        /\ result[c] = ErrorString(TermError)

\* C4: a call whose principal, rate and term pass their checks returns the
\* error string naming the loan amount whenever down_payment >= principal,
\* and returns a dictionary only when down_payment < principal
DownPaymentNotBelowPrincipalIsRejected ==
    \A c \in Callers :
        ( /\ Returned(c)
          /\ Coerces(loan_details[c])
          /\ PrincipalPositive(loan_details[c])
          /\ loan_details[c].annual_interest_rate.num >= 0
          /\ ToInt(loan_details[c].loan_term_years, 30) > 0 )
            => /\ ~DecLt(loan_details[c].down_payment, loan_details[c].principal)
                    => result[c] = ErrorString(LoanAmountError)
               /\ IsDict(result[c])
                    => DecLt(loan_details[c].down_payment, loan_details[c].principal)

\* a request whose down payment equals its principal of 1000 has been
\* answered with the loan amount error
EqualDownPaymentRejected ==
    \E c \in Callers :
        /\ Returned(c)
        /\ loan_details[c].principal = Num(1000, 0)
        /\ loan_details[c].down_payment = Num(1000, 0)
        /\ loan_details[c].annual_interest_rate = Num(45, 1)
        /\ loan_details[c].loan_term_years = Num(1, 0)
        /\ result[c] = ErrorString(LoanAmountError)

IsErrorString(r) ==
    r.type = "str" /\ Len(r.value) >= 6 /\ SubSeq(r.value, 1, 6) = "Error:"

RowKeys == {"year", "principal_paid", "interest_paid", "remaining_balance"}

BreakdownKeys == {"principal_and_interest", "property_tax", "insurance", "pmi"}

ResultKeys ==
    {"type", "monthly_payment", "total_monthly_payment", "total_payment",
     "total_interest", "monthly_breakdown", "amortization_schedule"}

\* a dictionary with every key, the four components and a row for each year
IsCompleteResult(r, loan_term_years) ==
    /\ IsDict(r)
    /\ DOMAIN r = ResultKeys
    /\ DOMAIN r.monthly_breakdown = BreakdownKeys
    /\ Len(r.amortization_schedule) = loan_term_years
    /\ \A i \in 1..Len(r.amortization_schedule) :
           DOMAIN r.amortization_schedule[i] = RowKeys

\* C5: a call returns nothing before it ends, and what it returns is either
\* a string beginning with "Error:" or a complete result
ErrorStringOrCompleteResult ==
    \A c \in Callers :
        IF Returned(c)
        THEN \/ IsErrorString(result[c])
             \/ IsCompleteResult(result[c], locals[c].loan_term_years)
        ELSE result[c] = NoResult

\* a call that failed after validation, in math.pow, has returned the error
\* string alone
FailedAfterValidation ==
    \E c \in Callers :
        /\ Returned(c)
        /\ locals[c].num_payments = 1200
        /\ result[c] = ErrorString("Error: math range error")

\* the call is in its simulation or has returned a dictionary
Simulated(c) == pc[c] \in {"year", "month", "append"} \/ IsDict(result[c])

\* C6: a call simulates at most loan_term_years * 12 periods, and the
\* schedule it returns has loan_term_years rows with years 1, 2, ...
ScheduleHasTermRows ==
    \A c \in Callers :
        /\ Simulated(c) => locals[c].periods <= locals[c].loan_term_years * 12
        /\ IsDict(result[c])
            => /\ Len(result[c].amortization_schedule) = locals[c].loan_term_years
               /\ \A i \in 1..Len(result[c].amortization_schedule) :
                      result[c].amortization_schedule[i].year = i

\* a loan over 4 years was paid off after 36 periods and its schedule has
\* 4 rows
PaidOffEarlyHasTermRows ==
    \E c \in Callers :
        /\ IsDict(result[c])
        /\ locals[c].loan_term_years = 4
        /\ locals[c].periods = 36
        /\ Len(result[c].amortization_schedule) = 4
        /\ result[c].amortization_schedule[4].remaining_balance = 0

LastRow(r) == r.amortization_schedule[Len(r.amortization_schedule)]

\* C7: the remaining_balance of the last row of a returned schedule is
\* within 0.01 of zero
FinalBalanceIsZero ==
    \A c \in Callers :
        (IsDict(result[c]) /\ result[c].amortization_schedule # <<>>)
            => Abs(LastRow(result[c]).remaining_balance) <= 1

\* C8: in a returned schedule the remaining_balance of a row is at most
\* that of the row before it, and that of the first row is at most the loan
\* amount
BalanceNonIncreasing ==
    \A c \in Callers :
        IsDict(result[c])
            => /\ \A i \in 1..(Len(result[c].amortization_schedule) - 1) :
                      result[c].amortization_schedule[i + 1].remaining_balance
                          <= result[c].amortization_schedule[i].remaining_balance
               /\ result[c].amortization_schedule # <<>>
                    => result[c].amortization_schedule[1].remaining_balance
                          <= Cents(loan_details[c].principal)
                                 - Cents(loan_details[c].down_payment)

\* C9: in a returned schedule the interest_paid of a row is at most that of
\* the row before it
InterestNonIncreasing ==
    \A c \in Callers :
        IsDict(result[c])
            => \A i \in 1..(Len(result[c].amortization_schedule) - 1) :
                   result[c].amortization_schedule[i + 1].interest_paid
                       <= result[c].amortization_schedule[i].interest_paid

\* C10: the total_interest returned is the monthly_payment returned times
\* the number of periods, less the loan amount, to within the rounding of the
\* monthly payment (half a hundredth for each period) and of the total; it
\* is 0 when annual_interest_rate is 0
TotalInterestIsPaymentsLessLoan ==
    \A c \in Callers :
        IsDict(result[c])
            => /\ Abs(result[c].total_interest
                        - (result[c].monthly_payment * locals[c].num_payments
                             - (Cents(loan_details[c].principal)
                                  - Cents(loan_details[c].down_payment))))
                    <= locals[c].num_payments \div 2 + 1
               /\ loan_details[c].annual_interest_rate.num = 0
                    => result[c].total_interest = 0

\* 300000 at 4.5% over 30 years: 1520.06 a month and 247220.13 of interest
ThirtyYearLoanInterest ==
    \E c \in Callers :
        /\ IsDict(result[c])
        /\ loan_details[c].principal = Num(300000, 0)
        /\ locals[c].num_payments = 360
        /\ result[c].monthly_payment = 152006
        /\ result[c].total_interest = 24722013

\* down_payment < 0.20 * principal and pmi > 0, as the request gives them
PmiApplies(d) ==
    /\ 5 * d.down_payment.num * 10^d.principal.scale
          < d.principal.num * 10^d.down_payment.scale
    /\ d.pmi.num > 0

\* the loan amount of the request, in hundredths
LoanCents(d) == Cents(d.principal) - Cents(d.down_payment)

\* pmi_cents is (loan_amount * pmi / 100) / 12 rounded to hundredths
IsPmiOf(pmi_cents, d) ==
    Abs(pmi_cents * 1200 * 10^d.pmi.scale - LoanCents(d) * d.pmi.num)
        <= 600 * 10^d.pmi.scale + 1

\* C11: the monthly PMI of a returned result is (loan_amount * pmi / 100) / 12,
\* and positive, exactly when down_payment < 0.20 * principal and pmi > 0,
\* and is 0 otherwise; a down payment of exactly 0.20 * principal has no PMI
PmiExactlyBelowTwentyPercent ==
    \A c \in Callers :
        IsDict(result[c])
            => IF PmiApplies(loan_details[c])
               THEN /\ FGt(locals[c].pmi_monthly, FZero)
                    /\ IsPmiOf(result[c].monthly_breakdown.pmi, loan_details[c])
               ELSE /\ IsZero(locals[c].pmi_monthly)
                    /\ result[c].monthly_breakdown.pmi = 0

\* the request passes the four checks and its rate is exactly 0
ZeroRateRequest(d) ==
    /\ Coerces(d)
    /\ PrincipalPositive(d)
    /\ d.annual_interest_rate.num = 0
    /\ ToInt(d.loan_term_years, 30) > 0
    /\ DecLt(d.down_payment, d.principal)

\* row k of a schedule over term years that pays loan (in hundredths) off
\* in equal parts without interest
IsEqualPartsRow(row, k, term, loan) ==
    /\ row.interest_paid = 0
    /\ Abs(row.principal_paid * term - loan) <= term \div 2 + 1
    /\ Abs(row.remaining_balance * term - loan * (term - k)) <= term \div 2 + 1

\* r is the result of paying loan (in hundredths) off in n equal payments
\* over term years
IsEqualPartsResult(r, n, term, loan) ==
    /\ IsDict(r)
    /\ Abs(r.monthly_payment * n - loan) <= n \div 2 + 1
    /\ Len(r.amortization_schedule) = term
    /\ \A k \in 1..Len(r.amortization_schedule) :
           IsEqualPartsRow(r.amortization_schedule[k], k, term, loan)
    /\ LastRow(r).remaining_balance = 0

\* C12: with annual_interest_rate exactly 0 a call returns monthly_payment =
\* loan_amount / num_periods, and each row k has interest_paid 0,
\* principal_paid loan_amount / loan_term_years (twelve payments) and
\* remaining_balance loan_amount * (1 - k / loan_term_years), 0 in the last
\* row, each to within the rounding to hundredths
ZeroRatePaysEqualParts ==
    \A c \in Callers :
        (Returned(c) /\ ZeroRateRequest(loan_details[c]))
            => IsEqualPartsResult(result[c], locals[c].num_payments,
                                  locals[c].loan_term_years, LoanCents(loan_details[c]))

\* 300000 without interest over 30 years: 833.33 a month, 10000.00 of
\* principal a year, 290000.00 left after the first year
ZeroRateThirtyYears ==
    \E c \in Callers :
        /\ Returned(c)
        /\ loan_details[c] = Plain(Num(300000, 0), Num(0, 0), Num(30, 0))
        /\ IsDict(result[c])
        /\ result[c].monthly_payment = 83333
        /\ result[c].total_interest = 0
        /\ result[c].amortization_schedule[1] =
              [year |-> 1, principal_paid |-> 1000000, interest_paid |-> 0,
               remaining_balance |-> 29000000]
        /\ result[c].amortization_schedule[30].remaining_balance = 0

\* the sum of the four components the result reports
BreakdownSum(b) == b.principal_and_interest + b.property_tax + b.insurance + b.pmi

\* C13 as stated: the total_monthly_payment reported is within 0.01 of the
\* sum of the four monthly_breakdown components reported
TotalMonthlyWithinOneCent ==
    \A c \in Callers :
        IsDict(result[c])
            => Abs(result[c].total_monthly_payment
                     - BreakdownSum(result[c].monthly_breakdown)) <= 1

\* C13, amended: the total_monthly_payment reported is within 0.02 of the
\* sum of the four monthly_breakdown components reported (the total and the
\* components are each rounded on their own)
TotalMonthlyWithinTwoCents ==
    \A c \in Callers :
        IsDict(result[c])
            => Abs(result[c].total_monthly_payment
                     - BreakdownSum(result[c].monthly_breakdown)) <= 2

\* 491000 at 7% over 10 years with 49100 down, tax 3700, insurance 2500
\* and PMI 0.5: the total reported is 5831.63, the components add to 5831.61
TotalMonthlyTwoCentsOff ==
    \E c \in Callers :
        /\ IsDict(result[c])
        /\ loan_details[c].principal = Num(491000, 0)
        /\ result[c].total_monthly_payment = 583163
        /\ result[c].monthly_breakdown =
              [principal_and_interest |-> 513083, property_tax |-> 30833,
               insurance |-> 20833, pmi |-> 18412]

\* monthly (in hundredths) is the request value annual / 12, rounded
IsTwelfthOf(monthly, annual) == Abs(monthly * 12 - Cents(annual)) <= 6

\* C14 as stated: the property tax and insurance components reported are
\* property_tax / 12 and insurance / 12 for every request that passes
\* validation, and 0 for an absent field
EscrowIsTwelfth ==
    \A c \in Callers :
        IsDict(result[c])
            => /\ IsTwelfthOf(result[c].monthly_breakdown.property_tax,
                              loan_details[c].property_tax)
               /\ IsTwelfthOf(result[c].monthly_breakdown.insurance,
                              loan_details[c].insurance)

\* monthly is annual / 12 for a positive annual amount and 0 otherwise
IsEscrowOf(monthly, annual) ==
    IF annual.num > 0 THEN IsTwelfthOf(monthly, annual) ELSE monthly = 0

\* C14, amended: the property tax and insurance components reported are
\* property_tax / 12 and insurance / 12 when the field is positive, and 0
\* when it is absent, zero or negative
PositiveEscrowIsTwelfth ==
    \A c \in Callers :
        IsDict(result[c])
            => /\ IsEscrowOf(result[c].monthly_breakdown.property_tax,
                             loan_details[c].property_tax)
               /\ IsEscrowOf(result[c].monthly_breakdown.insurance,
                             loan_details[c].insurance)

\* property_tax 2400 and insurance 1200 a year are reported as 200.00 and
\* 100.00 a month
EscrowReported ==
    \E c \in Callers :
        /\ IsDict(result[c])
        /\ loan_details[c].property_tax = Num(2400, 0)
        /\ loan_details[c].insurance = Num(1200, 0)
        /\ result[c].monthly_breakdown.property_tax = 20000
        /\ result[c].monthly_breakdown.insurance = 10000

\* C15: every call made with a request returns what the earlier calls made
\* with that request returned, whatever calls were made in between
SameRequestSameOutput ==
    /\ \A d \in FollowedRequests : Cardinality(outputs[d]) <= 1
    /\ \A c \in Callers :
           (Returned(c) /\ outputs[loan_details[c]] # {})
               => result[c] \in outputs[loan_details[c]]

\* a request has been answered again, with a dictionary, after calls with
\* it and with the other requests had returned
AnsweredAgain ==
    \E c \in Callers :
        /\ Returned(c)
        /\ IsDict(result[c])
        /\ result[c] \in outputs[loan_details[c]]
        /\ \A d \in FollowedRequests : outputs[d] # {}

\* the two calls are made with the same request and are at the same place
SamePlace(c1, c2) ==
    /\ loan_details[c1] = loan_details[c2]
    /\ pc[c1] = pc[c2]
    /\ locals[c1].year = locals[c2].year
    /\ locals[c1].month = locals[c2].month

\* C16: with the steps of the callers' calls interleaved in every way, a
\* call's locals (its remaining_balance and schedule among them) and its
\* result depend on its own request and progress alone, and every call made
\* with a request returns the same value, the one a call running alone returns
InterleavedCallsArePrivate ==
    /\ \A c1, c2 \in Callers :
           SamePlace(c1, c2) => (locals[c1] = locals[c2] /\ result[c1] = result[c2])
    /\ \A d \in FollowedRequests : Cardinality(outputs[d]) <= 1
    /\ \A c \in Callers :
           (Returned(c) /\ outputs[loan_details[c]] # {})
               => result[c] \in outputs[loan_details[c]]

\* a call has returned the schedule an earlier call returned, while another
\* caller's call with the same request is in its seventh period
ReturnedDuringAnotherCall ==
    \E c1, c2 \in Callers :
        /\ c1 # c2
        /\ loan_details[c1] = loan_details[c2]
        /\ pc[c1] = "month"
        /\ locals[c1].month = 7
        /\ Returned(c2)
        /\ IsDict(result[c2])
        /\ result[c2] \in outputs[loan_details[c2]]

\* what str(e) is for the exception the request makes the call raise
CauseOf(d) ==
    IF d = NotMapping THEN "'NoneType' object has no attribute 'get'"
    ELSE IF d.principal = Str THEN "could not convert string to float: 'abc'"
    ELSE IF d.loan_term_years = Str /\ d.annual_interest_rate # Str
    THEN "invalid literal for int() with base 10: 'abc'"
    ELSE IF d = Plain(Num(1000, 0), Num(1200, 0), Num(100, 0)) THEN "math range error"
    ELSE IF d = Plain(Num(1000, 0), Num(1, 14), Num(1, 0)) THEN "float division by zero"
    ELSE ""

\* C17: no call ends with an exception thrown to the caller; a call that
\* raises, in a coercion or in the computation, returns the string "Error: "
\* followed by the text of the exception
ExceptionsAreReturned ==
    \A c \in Callers :
        Returned(c)
            => /\ result[c].type \in {"str", "dict"}
               /\ result[c].type = "str" => IsErrorString(result[c])
               /\ CauseOf(loan_details[c]) # ""
                    => result[c] = ErrorString("Error: " \o CauseOf(loan_details[c]))

\* a call made with None instead of a mapping has returned the text of the
\* AttributeError
NotMappingReturned ==
    \E c \in Callers :
        /\ Returned(c)
        /\ loan_details[c] = NotMapping
        /\ result[c] = ErrorString("Error: 'NoneType' object has no attribute 'get'")

\* the request passes the four checks
ValidRequest(d) ==
    /\ Coerces(d)
    /\ PrincipalPositive(d)
    /\ d.annual_interest_rate.num >= 0
    /\ ToInt(d.loan_term_years, 30) > 0
    /\ DecLt(d.down_payment, d.principal)

\* C18: a call whose request passes the four checks computes a monthly
\* payment that is positive, and returns a result: the payment formula
\* raises no arithmetic error
PaymentSolverNeverFails ==
    \A c \in Callers :
        (Returned(c) /\ ValidRequest(loan_details[c]))
            => /\ IsDict(result[c])
               /\ FGt(locals[c].monthly_payment, FZero)

(***************************************************************************)
(* DebTool.deb                                                             *)
(***************************************************************************)
DebReturned == deb.pc = "done"

\* a query that is not empty and has only ASCII letters, digits, '-', '+'
\* and '.'
IsPackageName(query) ==
    /\ query /= ""
    /\ \A i \in 1..Len(query) : CharAt(query, i) \in PackageNameChars

QueryOf(command) == command[3]

\* C19: every command deb runs is given a query that is not empty and has
\* only ASCII letters, digits, '-', '+' and '.'; a call whose query is empty
\* or has another character returns the error message for it and has run no
\* command.
CommandsRunOnlyForPackageNames ==
    /\ \A i \in 1..Len(deb.commands) : IsPackageName(QueryOf(deb.commands[i]))
    /\ (DebReturned /\ ~IsPackageName(deb.query)) =>
        /\ deb.commands = <<>>
        /\ deb.result =
            IF deb.query = "" THEN EmptyQueryError ELSE InvalidQueryError

\* dpkg ran and printed nothing but blanks, or the no-match notice
DpkgReportedNoMatch ==
    /\ Len(deb.outcomes) >= 1
    /\ ~deb.outcomes[1].raised
    /\ \/ IsBlank(deb.outcomes[1].stdout)
       \/ Contains(deb.outcomes[1].stdout, NoMatchNotice)

\* dpkg ran and printed the package
DpkgReportedPackage ==
    /\ Len(deb.outcomes) >= 1
    /\ ~deb.outcomes[1].raised
    /\ ~IsBlank(deb.outcomes[1].stdout)
    /\ ~Contains(deb.outcomes[1].stdout, NoMatchNotice)

\* C20: apt-cache search is run only as the second command, after dpkg -l of
\* the same query reported no match; when dpkg reports the package the call
\* runs that one command and returns its stdout unchanged; a call runs at
\* most two commands; the exception of a command is returned as "Error: "
\* followed by its cause.
AptCacheOnlyAfterDpkgFoundNothing ==
    /\ Len(deb.commands) <= 2
    /\ \A i \in 1..Len(deb.commands) :
        /\ deb.commands[i] \in {DpkgCommand(deb.query), AptCacheCommand(deb.query)}
        /\ deb.commands[i] = AptCacheCommand(deb.query) =>
            /\ i = 2
            /\ deb.commands[1] = DpkgCommand(deb.query)
            /\ DpkgReportedNoMatch
    /\ (DebReturned /\ DpkgReportedPackage) =>
        /\ Len(deb.commands) = 1
        /\ deb.result = deb.outcomes[1].stdout
    /\ \A i \in 1..Len(deb.outcomes) :
        (DebReturned /\ deb.outcomes[i].raised) =>
            deb.result = "Error: " \o deb.outcomes[i].cause

\* the fallback was taken and found the package in the repositories
FoundByAptCacheAfterDpkg ==
    /\ DebReturned
    /\ deb.commands = <<DpkgCommand("python3-dev"), AptCacheCommand("python3-dev")>>
    /\ deb.outcomes[1].stdout = "No packages found matching python3-dev"
    /\ deb.result = FoundInRepositories("python3-dev", "python3-dev - Header files and a static library for Python")

(***************************************************************************)
(* JobSearchTool.search_jobs                                               *)
(***************************************************************************)
\* the call has returned and no exception was raised in it
SearchListed == search.pc = "done" /\ search.raised = ""

\* the job is remote, has Rust among its skills, is in San Francisco and
\* pays a salary within the range of the call, bounds included
MeetsCriteria(job) ==
    /\ job.remote = TRUE
    /\ "Rust" \in {job.skills[i] : i \in 1..Len(job.skills)}
    /\ \E k \in 1..(Len(job.location) - 12) :
            SubSeq(job.location, k, k + 12) = "San Francisco"
    /\ search.min_salary <= job.salary
    /\ job.salary <= search.max_salary

\* the places in the response of the jobs that meet the criteria
MatchingPlaces == {i \in 1..Len(search.jobs) : MeetsCriteria(search.jobs[i])}

\* the place in the response of the n-th job that meets the criteria
PlaceOfMatch(n) ==
    CHOOSE i \in MatchingPlaces :
        Cardinality({j \in MatchingPlaces : j <= i}) = n

\* the listed job shows the job of the response
Shows(listed, job) ==
    /\ listed.title = job.title
    /\ listed.company = job.company
    /\ listed.location = job.location
    /\ listed.salary = "$" \o Thousands(job.salary)

\* C21: a call of search_jobs that returns a listing lists at most 3 jobs;
\* the jobs listed are, in the order of the API response, the first jobs of
\* the response that are remote, have Rust among their skills, a location
\* containing San Francisco and a salary between min_salary and max_salary,
\* bounds included; when no job of the response is such a job the call
\* returns "No jobs found matching your criteria.", and only then.
ListsFirstThreeMatchingJobs ==
    SearchListed =>
        /\ Len(search.filtered_jobs) <= 3
        /\ Len(search.filtered_jobs) = Min(3, Cardinality(MatchingPlaces))
        /\ \A n \in 1..Len(search.filtered_jobs) :
                Shows(search.filtered_jobs[n], search.jobs[PlaceOfMatch(n)])
        /\ (MatchingPlaces = {}) <=> (search.result = "No jobs found matching your criteria.")

\* the default range against the response of the mock: four of its five
\* jobs meet the criteria and the first three are listed
FourthMatchNotListed ==
    /\ SearchListed
    /\ search.salary_range = "$120,000-150,000"
    /\ search.jobs = MockJobs
    /\ MatchingPlaces = {1, 2, 3, 4}
    /\ Len(search.filtered_jobs) = 3
    /\ search.filtered_jobs[3].company = "Security Solutions"

(***************************************************************************)
(* The simulation, period by period                                        *)
(***************************************************************************)
\* the call is in its year and month loops
InLoops(c) == pc[c] \in {"year", "month", "append"}

\* the schedule of a call when it has returned one, or the empty schedule
ReturnedSchedule(c) ==
    IF IsDict(result[c]) THEN result[c].amortization_schedule ELSE <<>>

\* C22: in every state of the simulation remaining_balance is >= 0; a period
\* whose payment exceeds what is owed leaves a balance of exactly 0; no row,
\* of the schedule being built or of the schedule returned, has a negative
\* remaining_balance.
BalanceNeverNegative ==
    \A c \in Callers :
        /\ ~FLt(locals[c].remaining_balance, FZero)
        /\ \A i \in 1..Len(locals[c].amortization_schedule) :
                locals[c].amortization_schedule[i].remaining_balance >= 0
        /\ \A i \in 1..Len(ReturnedSchedule(c)) :
                ReturnedSchedule(c)[i].remaining_balance >= 0

\* 1000 at 4.5% over 1 year: the twelfth payment exceeds what is owed (the
\* principal of the year adds up to more than the loan) and the balance is 0
OverpaymentClamped ==
    \E c \in Callers :
        /\ pc[c] = "month"
        /\ loan_details[c] = Plain(Num(1000, 0), Num(45, 1), Num(1, 0))
        /\ locals[c].periods = 12
        /\ FGt(locals[c].year_principal, locals[c].loan_amount)
        /\ IsZero(locals[c].remaining_balance)

\* |a - b| <= tolerance
Within(a, b, tolerance) ==
    FLe(FSub(a, b), tolerance) /\ FLe(FSub(b, a), tolerance)

\* the periods simulated in the year whose month loop is over
PeriodsInYear(c) == locals[c].month - 1

\* C23: when the month loop of a year is over, year_principal + year_interest
\* (the row's principal_paid + interest_paid before rounding) is
\* monthly_payment times the periods simulated in the year, to within a
\* hundredth; the periods are 12 when the balance was positive before each
\* period of the year, fewer when the loop broke, and 0 in a year that
\* starts with a balance of zero.
RowPaysPeriodsTimesPayment ==
    \A c \in Callers :
        pc[c] = "append" =>
            /\ Within(FAdd(locals[c].year_principal, locals[c].year_interest),
                      FMul(locals[c].monthly_payment, FromInt(PeriodsInYear(c))),
                      Dec(1, 2))
            /\ PeriodsInYear(c) \in 0..12
            /\ PeriodsInYear(c) < 12 => IsZero(locals[c].remaining_balance)
            /\ (PeriodsInYear(c) = 0) <=>
                    (locals[c].periods > 0 /\ IsZero(locals[c].year_principal)
                        /\ IsZero(locals[c].year_interest))

\* 1000 at 3.6e-13 % over 4 years: the third year ends with a full row, the
\* balance is paid off in its twelfth period, and the fourth has no period
YearWithoutPeriods ==
    \E c \in Callers :
        /\ pc[c] = "append"
        /\ locals[c].year = 4
        /\ locals[c].periods = 36
        /\ PeriodsInYear(c) = 0
        /\ IsZero(locals[c].year_principal)

\* the step of a call that has a balance of zero and goes on
ZeroBalanceStep(c) ==
    (InLoops(c) /\ locals[c].periods > 0 /\ IsZero(locals[c].remaining_balance)
        /\ pc'[c] # "idle")
        => /\ IsZero(locals'[c].remaining_balance)
           /\ locals'[c].periods = locals[c].periods
           /\ (pc[c] = "append" /\ PeriodsInYear(c) = 0)
                => /\ Len(locals'[c].amortization_schedule)
                        = Len(locals[c].amortization_schedule) + 1
                   /\ locals'[c].amortization_schedule[Len(locals'[c].amortization_schedule)]
                        = [year |-> locals[c].year, principal_paid |-> 0,
                           interest_paid |-> 0, remaining_balance |-> 0]

\* C24: once remaining_balance is zero, every later step of the call leaves
\* it zero and simulates no period, and the row appended for a year that
\* started with a balance of zero has principal_paid = 0, interest_paid = 0
\* and remaining_balance = 0.
ZeroBalanceStaysZero == [][\A c \in Callers : ZeroBalanceStep(c)]_vars

\* 1000 at 3.6e-13 % over 4 years is paid off in 36 periods: the fourth row
\* of the schedule returned is a row of zeros
ZeroRowAfterPayoff ==
    \E c \in Callers :
        /\ IsDict(result[c])
        /\ loan_details[c] = Plain(Num(1000, 0), Num(36, 14), Num(4, 0))
        /\ locals[c].periods = 36
        /\ result[c].amortization_schedule[3].principal_paid > 0
        /\ result[c].amortization_schedule[4]
            = [year |-> 4, principal_paid |-> 0, interest_paid |-> 0,
               remaining_balance |-> 0]

ValidationErrors ==
    {ErrorString(PrincipalError), ErrorString(RateError), ErrorString(TermError),
     ErrorString(LoanAmountError)}

\* the optional field is absent from the request
IsAbsent(v) == v.kind = "absent"

\* C25: a call whose request has principal > 0, annual_interest_rate >= 0,
\* loan_term_years > 0 and down_payment < principal does not return any of
\* the four validation messages, whatever down_payment, property_tax,
\* insurance and pmi are; an optional field that is absent is coerced to 0.
OnlyFourChecksReject ==
    \A c \in Callers :
        /\ (Returned(c) /\ ValidRequest(loan_details[c]))
                => result[c] \notin ValidationErrors
        /\ (pc[c] \notin {"idle", "coerce"} /\ Coerces(loan_details[c]))
                => /\ IsAbsent(loan_details[c].down_payment) => IsZero(locals[c].down_payment)
                   /\ IsAbsent(loan_details[c].property_tax) => IsZero(locals[c].property_tax)
                   /\ IsAbsent(loan_details[c].insurance) => IsZero(locals[c].insurance)
                   /\ IsAbsent(loan_details[c].pmi) => IsZero(locals[c].pmi_rate)

\* a request with a negative down payment, negative escrow amounts and a
\* negative pmi has been answered with a dictionary
NegativeOptionalsAccepted ==
    \E c \in Callers :
        /\ Returned(c)
        /\ loan_details[c].down_payment = Num(-500, 0)
        /\ loan_details[c].property_tax = Num(-1200, 0)
        /\ loan_details[c].insurance = Num(-600, 0)
        /\ loan_details[c].pmi = Num(-1, 0)
        /\ IsDict(result[c])

\* the two requests ask for the same loan
SameLoan(d1, d2) ==
    /\ d1.principal = d2.principal
    /\ d1.annual_interest_rate = d2.annual_interest_rate
    /\ d1.loan_term_years = d2.loan_term_years
    /\ d1.down_payment = d2.down_payment

\* C26: two calls whose requests have the same principal, annual_interest_rate,
\* loan_term_years and down_payment return the same monthly_payment,
\* total_interest and amortization_schedule, whatever their property_tax,
\* insurance and pmi.
EscrowDoesNotReachSchedule ==
    \A c1, c2 \in Callers :
        (IsDict(result[c1]) /\ IsDict(result[c2])
            /\ SameLoan(loan_details[c1], loan_details[c2]))
            => /\ result[c1].monthly_payment = result[c2].monthly_payment
               /\ result[c1].total_interest = result[c2].total_interest
               /\ result[c1].amortization_schedule = result[c2].amortization_schedule

\* the same loan has been answered without and with escrow and PMI: the
\* total monthly payments differ
AnsweredWithAndWithoutEscrow ==
    \E c1, c2 \in Callers :
        /\ IsDict(result[c1]) /\ IsDict(result[c2])
        /\ SameLoan(loan_details[c1], loan_details[c2])
        /\ loan_details[c1].property_tax = Absent
        /\ loan_details[c2].property_tax = Num(2400, 0)
        /\ result[c2].monthly_breakdown.pmi > 0
        /\ result[c1].total_monthly_payment < result[c2].total_monthly_payment
        /\ Len(result[c1].amortization_schedule) = 1

\* the messages of the checks the request violates, as the request gives
\* its values
ViolatedChecks(d) ==
    {msg \in {PrincipalError, RateError, TermError, LoanAmountError} :
        \/ msg = PrincipalError /\ ~PrincipalPositive(d)
        \/ msg = RateError /\ d.annual_interest_rate.num < 0
        \/ msg = TermError /\ ToInt(d.loan_term_years, 30) <= 0
        \/ msg = LoanAmountError /\ ~DecLt(d.down_payment, d.principal)}

\* the message of the first of them, in the order principal, rate, term,
\* loan amount
FirstViolated(violated) ==
    IF PrincipalError \in violated THEN PrincipalError
    ELSE IF RateError \in violated THEN RateError
    ELSE IF TermError \in violated THEN TermError
    ELSE LoanAmountError

\* C27: a call whose request coerces and violates two or more of the four
\* checks returns the message of the first check violated, in the order
\* principal, rate, term, loan amount.
FirstViolatedCheckIsReported ==
    \A c \in Callers :
        (Returned(c) /\ Coerces(loan_details[c])
            /\ Cardinality(ViolatedChecks(loan_details[c])) >= 2)
            => result[c] = ErrorString(FirstViolated(ViolatedChecks(loan_details[c])))

\* a request that violates all four checks has been answered with the
\* principal message, and the checks it violates are four
AllFourViolated ==
    \E c \in Callers :
        /\ Returned(c)
        /\ loan_details[c] = Request(Num(-1000, 0), Num(-1, 0), Num(-1, 0), Num(1500, 0), Absent, Absent, Absent)
        /\ Cardinality(ViolatedChecks(loan_details[c])) = 4
        /\ result[c] = ErrorString(PrincipalError)

\* one of the seven fields of the request is a text that is no number
HasText(d) ==
    \E v \in {d.principal, d.annual_interest_rate, d.loan_term_years,
              d.down_payment, d.property_tax, d.insurance, d.pmi} : v = Str

\* C28: a call whose request has a text that is no number in any of its
\* seven fields, optional ones included, returns "Error: " followed by the
\* cause of the failed conversion and none of the four validation messages,
\* also when the request violates validation checks; it never reaches the
\* checks.
UncoercibleFieldComesFirst ==
    \A c \in Callers :
        HasText(loan_details[c])
            => /\ pc[c] \in {"coerce", "done"}
               /\ Returned(c)
                    => /\ result[c] \notin ValidationErrors
                       /\ result[c] \in
                            {ErrorString("Error: could not convert string to float: 'abc'"),
                             ErrorString("Error: invalid literal for int() with base 10: 'abc'")}

\* a request with principal 0, a negative rate, a term of 0 and a pmi that is
\* a text has been answered with the error of the conversion
TextPmiReportedBeforeChecks ==
    \E c \in Callers :
        /\ Returned(c)
        /\ loan_details[c] = Request(Num(0, 0), Num(-1, 0), Num(0, 0), Absent, Absent, Absent, Str)
        /\ Cardinality(ViolatedChecks(loan_details[c])) >= 2
        /\ result[c] = ErrorString("Error: could not convert string to float: 'abc'")

\* the principal recorded so far: that of the rows appended and that of the
\* year being simulated
PrincipalSoFar(c) == FAdd(locals[c].rows_principal, locals[c].year_principal)

\* C29: after every simulated period loan_amount is remaining_balance plus
\* the principal recorded so far, to within a hundredth; the principal_paid
\* of the rows of a returned schedule, summed before rounding, is loan_amount
\* less the final remaining_balance and is not above loan_amount, to within a
\* hundredth.
PrincipalIsConserved ==
    \A c \in Callers :
        /\ (pc[c] = "month" /\ locals[c].month > 1)
                => Within(FAdd(PrincipalSoFar(c), locals[c].remaining_balance),
                          locals[c].loan_amount, Dec(1, 2))
        /\ IsDict(result[c])
                => /\ Within(locals[c].rows_principal,
                             FSub(locals[c].loan_amount, locals[c].remaining_balance),
                             Dec(1, 2))
                   /\ FLe(locals[c].rows_principal,
                          FAdd(locals[c].loan_amount, Dec(1, 2)))

\* C30: the interest_paid of the rows of a returned schedule, summed before
\* rounding, is total_interest (monthly_payment * num_payments - loan_amount)
\* to within a hundredth.
SimulatedInterestIsTotalInterest ==
    \A c \in Callers :
        IsDict(result[c])
            => Within(locals[c].rows_interest, locals[c].total_interest, Dec(1, 2))

====
